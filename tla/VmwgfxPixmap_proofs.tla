------------------------ MODULE VmwgfxPixmap_proofs ------------------------
(***************************************************************************)
(* What the functions of VmwgfxPixmap preserve, whatever fails in them.    *)
(***************************************************************************)
EXTENDS VmwgfxPixmap, TLAPS

CorePixmap == { v \in PixmapRecord : StorageOK(v) /\ DirtyOK(v) }

GoodPixmap == { v \in CorePixmap : PendingOK(v) }

(* What a function that only moves contents between places may do to a     *)
(* pixmap: never mark software stale, never invent a presented tile, and   *)
(* leave alone what belongs to the framebuffer and to DRI2.                *)
Migrates(p, q) ==
  /\ q \in CorePixmap
  /\ q.dirty_hw \subseteq p.dirty_hw
  /\ q.dirty_present \subseteq p.dirty_present
  /\ q.pending_update = p.pending_update
  /\ q.pending_present = p.pending_present
  /\ q.scanout = p.scanout
  /\ q.fronts = p.fronts

(* Migration is a preorder: doing nothing migrates ...                     *)
LEMMA MigratesReflexive ==
  ASSUME NEW p \in CorePixmap
  PROVE  Migrates(p, p)
BY DEF Migrates

(* ... a migration ends in order ...                                       *)
LEMMA MigratesInOrder ==
  ASSUME NEW p, NEW q, Migrates(p, q)
  PROVE  q \in CorePixmap
BY DEF Migrates

(* ... and one after another is one.                                       *)
LEMMA MigratesTransitive ==
  ASSUME NEW p, NEW q, NEW r, Migrates(p, q), Migrates(q, r)
  PROVE  Migrates(p, r)
BY DEF Migrates

(* The outcome of a function that worked ...                               *)
LEMMA DoneIs == ASSUME NEW p PROVE Done(p).ok = TRUE /\ Done(p).p = p
BY DEF Done

(* ... and of one that did not.                                            *)
LEMMA FailedIs == ASSUME NEW p PROVE Failed(p).ok = FALSE /\ Failed(p).p = p
BY DEF Failed

(* Tiles taken from two images make an image.                              *)
LEMMA OverlayType ==
  ASSUME NEW f \in Image, NEW g \in Image, NEW R
  PROVE  Overlay(f, R, g) \in Image
BY DEF Overlay, Image

(* So does fresh storage.                                                  *)
LEMMA BlankType == Blank \in Image
BY DEF Blank, Image, Values

(* A new pixmap is in order (saa_create_pixmap).                           *)
LEMMA NewPixmapGood == NewPixmap \in GoodPixmap
<1>1. NewPixmap \in PixmapRecord
  BY BlankType, MaxFrontsAssumption DEF NewPixmap, PixmapRecord, Backings
<1>2. StorageOK(NewPixmap) /\ DirtyOK(NewPixmap) /\ PendingOK(NewPixmap)
  BY DEF NewPixmap, StorageOK, DirtyOK, PendingOK
<1> QED
  BY <1>1, <1>2 DEF GoodPixmap, CorePixmap

(* What a pixmap may look like once its damage is there: as it was, or all *)
(* of its surface-to-be stale.                                             *)
Damaged(p, a) ==
  /\ a \in PixmapRecord
  /\ a.damage = TRUE
  /\ a.backing = p.backing
  /\ a.malloc = p.malloc /\ a.gmr = p.gmr /\ (a.hw <=> p.hw)
  /\ a.dirty_present = p.dirty_present
  /\ a.pending_update = p.pending_update
  /\ a.pending_present = p.pending_present
  /\ a.scanout = p.scanout /\ a.fronts = p.fronts /\ a.sync = p.sync
  /\ a.unshown = p.unshown
  /\ a.sw_bits = p.sw_bits /\ a.hw_bits = p.hw_bits /\ a.fb_bits = p.fb_bits
  /\ \/ /\ p.damage
        /\ a.dirty_shadow = p.dirty_shadow /\ a.dirty_hw = p.dirty_hw
     \/ /\ ~p.damage /\ ~p.malloc /\ ~p.gmr /\ ~p.hw /\ ~p.scanout
        /\ a.dirty_shadow = Tiles /\ a.dirty_hw = {}

(* vmwgfx_pixmap_add_damage fails and changes nothing, or tracks damage.   *)
LEMMA AddDamageDamages ==
  ASSUME NEW p \in CorePixmap, NEW o \in AddDamage(p)
  PROVE  /\ o.ok \in BOOLEAN
         /\ ~o.ok => o = Failed(p)
         /\ o.ok => Damaged(p, o.p)
<1>1. CASE p.damage
  <2>1. o.ok = TRUE /\ o.p = p
    BY <1>1 DEF AddDamage, Done
  <2> QED
    BY <1>1, <2>1 DEF Damaged, CorePixmap, PixmapRecord
<1>2. CASE ~p.damage
  <2>1. ~p.malloc /\ ~p.gmr /\ ~p.hw /\ ~p.scanout
    BY <1>2 DEF CorePixmap, PixmapRecord, StorageOK
  <2>2. CASE o = Failed(p)
    BY <2>2 DEF Failed
  <2>3. CASE o # Failed(p)
    <3>1. /\ o.ok = TRUE
          /\ o.p = [p EXCEPT !.damage = TRUE, !.dirty_shadow = Tiles,
                             !.dirty_hw = {}]
      BY <1>2, <2>1, <2>3 DEF AddDamage, Done
    <3> QED
      BY <1>2, <2>1, <3>1 DEF Damaged, CorePixmap, PixmapRecord
  <2> QED
    BY <2>2, <2>3
<1> QED
  BY <1>1, <1>2 DEF CorePixmap, PixmapRecord

(* Damage tracking goes with the last storage of a pixmap not scanned out. *)
LEMMA RemoveDamageMigrates ==
  ASSUME NEW p \in CorePixmap, ~p.scanout
  PROVE  Migrates(p, RemoveDamage(p))
BY DEF RemoveDamage, CorePixmap, PixmapRecord, StorageOK, DirtyOK, Migrates

(* Storage the flags ask for is kept, so a pixmap in order loses none.     *)
LEMMA FreeStorageKeeps ==
  ASSUME NEW p \in PixmapRecord
  PROVE  LET q == FreeStorage(p) IN
         /\ q \in PixmapRecord
         /\ q.malloc = (p.malloc /\ "MALLOC" \in p.backing)
         /\ q.gmr = (p.gmr /\ "GMR" \in p.backing)
         /\ q.hw = (p.hw /\ "SURFACE" \in p.backing)
         /\ q.backing = p.backing /\ q.damage = p.damage
         /\ q.dirty_shadow = p.dirty_shadow /\ q.dirty_hw = p.dirty_hw
         /\ q.dirty_present = p.dirty_present
         /\ q.pending_update = p.pending_update
         /\ q.pending_present = p.pending_present
         /\ q.scanout = p.scanout /\ q.fronts = p.fronts /\ q.sync = p.sync
         /\ q.unshown = p.unshown
BY BlankType DEF FreeStorage, PixmapRecord

(* vmwgfx_pixmap_create_gmr only migrates, and leaves a GMR if it works.   *)
LEMMA CreateGmrMigrates ==
  ASSUME NEW p \in CorePixmap, NEW o \in CreateGmr(p)
  PROVE  /\ o.ok \in BOOLEAN
         /\ Migrates(p, o.p)
         /\ (o.p.hw <=> p.hw)
         /\ o.ok => o.p.gmr
<1>1. CASE p.gmr
  <2>1. o.ok = TRUE /\ o.p = p
    BY <1>1 DEF CreateGmr, Done
  <2> QED
    BY <1>1, <2>1, MigratesReflexive
<1>2. CASE o = Failed(p)
  BY <1>2, MigratesReflexive DEF Failed
<1>3. CASE ~p.gmr /\ o # Failed(p)
  <2>1. PICK a \in (IF p.malloc THEN {Done(p)} ELSE AddDamage(p)) :
          o = IF a.ok
              THEN Done(FreeStorage(PreferGmrBacking([a.p EXCEPT !.gmr = TRUE])))
              ELSE a
    BY <1>3 DEF CreateGmr
  <2>2. a.ok /\ Damaged(p, a.p)
    <3>1. CASE p.malloc
      <4>1. a.ok = TRUE /\ a.p = p
        BY <2>1, <3>1 DEF Done
      <4>2. p.damage = TRUE
        BY <3>1 DEF CorePixmap, PixmapRecord, StorageOK
      <4> QED
        BY <4>1, <4>2 DEF Damaged, CorePixmap, PixmapRecord
    <3>2. CASE ~p.malloc
      BY <1>3, <2>1, <3>2, AddDamageDamages
    <3> QED
      BY <3>1, <3>2
  <2>3. DEFINE b == PreferGmrBacking([a.p EXCEPT !.gmr = TRUE])
               q == FreeStorage(b)
  <2>4. o.ok = TRUE /\ o.p = q
    BY <2>1, <2>2 DEF Done
  <2>5. /\ b \in PixmapRecord
        /\ b.gmr = TRUE /\ b.backing = (a.p.backing \cup {"GMR"}) \ {"MALLOC"}
        /\ b.malloc = a.p.malloc /\ b.hw = a.p.hw /\ b.damage = a.p.damage
        /\ b.dirty_shadow = a.p.dirty_shadow /\ b.dirty_hw = a.p.dirty_hw
        /\ b.dirty_present = a.p.dirty_present
        /\ b.pending_update = a.p.pending_update
        /\ b.pending_present = a.p.pending_present
        /\ b.scanout = a.p.scanout /\ b.fronts = a.p.fronts
    BY <2>2 DEF Damaged, PreferGmrBacking, PixmapRecord, Backings
  <2>6. /\ q \in PixmapRecord
        /\ q.gmr = TRUE /\ q.malloc = FALSE /\ q.backing = b.backing
        /\ q.hw = (b.hw /\ "SURFACE" \in b.backing) /\ q.damage = b.damage
        /\ q.dirty_shadow = b.dirty_shadow /\ q.dirty_hw = b.dirty_hw
        /\ q.dirty_present = b.dirty_present
        /\ q.pending_update = b.pending_update
        /\ q.pending_present = b.pending_present
        /\ q.scanout = b.scanout /\ q.fronts = b.fronts
    <3> HIDE DEF b
    <3>1. ~("MALLOC" \in b.backing) /\ "GMR" \in b.backing
      BY <2>5
    <3>2. b.gmr /\ b.malloc \in BOOLEAN
      BY <2>5 DEF PixmapRecord
    <3> QED
      BY <2>5, <3>1, <3>2, FreeStorageKeeps
  <2> HIDE DEF b, q
  <2>7. q \in CorePixmap /\ (q.hw <=> p.hw)
    BY <2>2, <2>5, <2>6
       DEF Damaged, CorePixmap, StorageOK, DirtyOK, PixmapRecord
  <2>8. Migrates(p, q)
    BY <2>2, <2>5, <2>6, <2>7 DEF Damaged, Migrates
  <2> QED
    BY <2>4, <2>6, <2>7, <2>8
<1> QED
  BY <1>1, <1>2, <1>3 DEF CorePixmap, PixmapRecord

(* Malloced storage for a pixmap whose flags ask for it.                   *)
LEMMA CreateMallocMigrates ==
  ASSUME NEW p \in CorePixmap, "MALLOC" \in p.backing, ~p.malloc,
         NEW o \in CreateMalloc(p)
  PROVE  o.ok \in BOOLEAN /\ Migrates(p, o.p) /\ (o.p.hw <=> p.hw)
<1>1. CASE o = Failed(p)
  BY <1>1, MigratesReflexive DEF Failed
<1>2. CASE o # Failed(p)
  <2>1. PICK a \in AddDamage(p) :
          o = IF a.ok THEN Done([a.p EXCEPT !.malloc = TRUE]) ELSE a
    BY <1>2 DEF CreateMalloc
  <2>2. a.ok /\ Damaged(p, a.p)
    BY <1>2, <2>1, AddDamageDamages
  <2>3. o.ok = TRUE /\ o.p = [a.p EXCEPT !.malloc = TRUE]
    BY <2>1, <2>2 DEF Done
  <2>4. o.p \in CorePixmap /\ (o.p.hw <=> p.hw)
    <3>1. /\ o.p \in PixmapRecord
          /\ o.p.malloc = TRUE /\ o.p.gmr = p.gmr /\ (o.p.hw <=> p.hw)
          /\ o.p.backing = p.backing /\ o.p.damage = TRUE
          /\ o.p.scanout = p.scanout
          /\ o.p.dirty_shadow = a.p.dirty_shadow /\ o.p.dirty_hw = a.p.dirty_hw
          /\ o.p.dirty_present = p.dirty_present
      BY <2>2, <2>3 DEF Damaged, PixmapRecord
    <3>2. StorageOK(p) /\ DirtyOK(p) /\ p \in PixmapRecord
      BY DEF CorePixmap
    <3>3. StorageOK(o.p)
      BY <3>1, <3>2 DEF StorageOK, PixmapRecord
    <3>4. DirtyOK(o.p)
      BY <2>2, <3>1, <3>2 DEF Damaged, DirtyOK, PixmapRecord
    <3> QED
      BY <3>1, <3>3, <3>4 DEF CorePixmap
  <2>5. Migrates(p, o.p)
    BY <2>2, <2>3, <2>4 DEF Damaged, Migrates, CorePixmap, PixmapRecord
  <2> QED
    BY <2>3, <2>4, <2>5
<1> QED
  BY <1>1, <1>2

(* vmwgfx_pixmap_create_sw only migrates, and never touches the surface.   *)
LEMMA CreateSwMigrates ==
  ASSUME NEW p \in CorePixmap, NEW o \in CreateSw(p)
  PROVE  o.ok \in BOOLEAN /\ Migrates(p, o.p) /\ (o.p.hw <=> p.hw)
<1>1. CASE p.backing \cap {"MALLOC", "GMR"} = {}
  BY <1>1 DEF CorePixmap, StorageOK
<1>2. CASE "MALLOC" \in p.backing /\ ~p.malloc
  BY <1>2, CreateMallocMigrates DEF CreateSw
<1>3. CASE /\ p.backing \cap {"MALLOC", "GMR"} # {}
           /\ ~("MALLOC" \in p.backing /\ ~p.malloc)
           /\ "GMR" \in p.backing /\ (p.malloc \/ "MALLOC" \notin p.backing)
  BY <1>3, CreateGmrMigrates DEF CreateSw
<1>4. CASE /\ p.backing \cap {"MALLOC", "GMR"} # {}
           /\ ~("MALLOC" \in p.backing /\ ~p.malloc)
           /\ ~("GMR" \in p.backing /\ (p.malloc \/ "MALLOC" \notin p.backing))
  <2>1. o = Done(p)
    BY <1>4 DEF CreateSw
  <2> QED
    BY <2>1, MigratesReflexive DEF Done
<1> QED
  BY <1>1, <1>2, <1>3, <1>4

(* vmwgfx_prefer_gmr only migrates, whether or not the GMR can be made.    *)
LEMMA PreferGmrMigrates ==
  ASSUME NEW p \in CorePixmap, NEW q \in PreferGmr(p)
  PROVE  Migrates(p, q) /\ (q.hw <=> p.hw)
<1>1. CASE p.malloc
  <2>1. PICK o \in CreateGmr(p) : q = o.p
    BY <1>1 DEF PreferGmr, After
  <2> QED
    BY <2>1, CreateGmrMigrates
<1>2. CASE ~p.malloc /\ "MALLOC" \in p.backing
  <2>1. q = [p EXCEPT !.backing = (@ \cup {"GMR"}) \ {"MALLOC"}]
    BY <1>2 DEF PreferGmr, PreferGmrBacking
  <2>2. /\ q \in PixmapRecord
        /\ q.malloc = p.malloc /\ q.gmr = p.gmr /\ q.hw = p.hw
        /\ q.backing = (p.backing \cup {"GMR"}) \ {"MALLOC"}
        /\ q.damage = p.damage /\ q.scanout = p.scanout
        /\ q.dirty_shadow = p.dirty_shadow /\ q.dirty_hw = p.dirty_hw
        /\ q.dirty_present = p.dirty_present
        /\ q.pending_update = p.pending_update
        /\ q.pending_present = p.pending_present /\ q.fronts = p.fronts
    BY <2>1 DEF CorePixmap, PixmapRecord, Backings
  <2>3. StorageOK(q)
    BY <1>2, <2>2 DEF CorePixmap, PixmapRecord, StorageOK
  <2>4. DirtyOK(q)
    BY <2>2 DEF CorePixmap, DirtyOK
  <2> QED
    BY <2>2, <2>3, <2>4 DEF CorePixmap, Migrates
<1>3. CASE ~p.malloc /\ "MALLOC" \notin p.backing
  BY <1>3, MigratesReflexive DEF PreferGmr
<1> QED
  BY <1>1, <1>2, <1>3

(* vmwgfx_create_hw only migrates, and leaves a surface if it works.       *)
LEMMA CreateHwMigrates ==
  ASSUME NEW p \in CorePixmap, NEW o \in CreateHw(p)
  PROVE  o.ok \in BOOLEAN /\ Migrates(p, o.p) /\ (o.ok => o.p.hw)
<1>1. CASE p.hw
  <2>1. o.ok = TRUE /\ o.p = p
    BY <1>1 DEF CreateHw, Done
  <2> QED
    BY <1>1, <2>1, MigratesReflexive
<1>2. CASE o = Failed(p)
  BY <1>2, MigratesReflexive DEF Failed
<1>3. CASE ~p.hw /\ o # Failed(p)
  <2>1. PICK a \in AddDamage(p) :
          o \in IF a.ok
                THEN { Done(q) : q \in PreferGmr(FreeStorage(
                       [a.p EXCEPT !.hw = TRUE, !.backing = @ \cup {"SURFACE"}])) }
                ELSE {a}
    BY <1>3 DEF CreateHw
  <2>2. a.ok /\ Damaged(p, a.p)
    BY <1>3, <2>1, AddDamageDamages
  <2>3. DEFINE b == [a.p EXCEPT !.hw = TRUE, !.backing = @ \cup {"SURFACE"}]
               c == FreeStorage(b)
  <2>4. PICK q \in PreferGmr(c) : o = Done(q)
    BY <2>1, <2>2
  <2>5. /\ b \in PixmapRecord
        /\ b.hw = TRUE /\ b.backing = p.backing \cup {"SURFACE"}
        /\ b.malloc = p.malloc /\ b.gmr = p.gmr /\ b.damage = TRUE
        /\ b.dirty_shadow = a.p.dirty_shadow /\ b.dirty_hw = a.p.dirty_hw
        /\ b.dirty_present = p.dirty_present
        /\ b.pending_update = p.pending_update
        /\ b.pending_present = p.pending_present
        /\ b.scanout = p.scanout /\ b.fronts = p.fronts
    BY <2>2 DEF Damaged, PixmapRecord, Backings
  <2>6. /\ StorageOK(p) /\ DirtyOK(p) /\ p \in PixmapRecord
    BY DEF CorePixmap
  <2>7. /\ c \in PixmapRecord
        /\ c.hw = TRUE /\ c.backing = b.backing
        /\ c.malloc = p.malloc /\ c.gmr = p.gmr /\ c.damage = TRUE
        /\ c.dirty_shadow = b.dirty_shadow /\ c.dirty_hw = b.dirty_hw
        /\ c.dirty_present = p.dirty_present
        /\ c.pending_update = p.pending_update
        /\ c.pending_present = p.pending_present
        /\ c.scanout = p.scanout /\ c.fronts = p.fronts
    <3> HIDE DEF b
    <3>1. /\ p.malloc => "MALLOC" \in b.backing
          /\ p.gmr => "GMR" \in b.backing
          /\ "SURFACE" \in b.backing
      BY <2>5, <2>6 DEF StorageOK, PixmapRecord
    <3> QED
      BY <2>5, <2>6, <3>1, FreeStorageKeeps DEF PixmapRecord
  <2> HIDE DEF b, c
  <2>8. c \in CorePixmap
    <3>1. StorageOK(c)
      BY <2>5, <2>6, <2>7 DEF StorageOK, PixmapRecord
    <3>2. DirtyOK(c)
      BY <2>2, <2>5, <2>6, <2>7 DEF Damaged, DirtyOK, PixmapRecord
    <3> QED
      BY <2>7, <3>1, <3>2 DEF CorePixmap
  <2>9. Migrates(p, c)
    BY <2>2, <2>5, <2>6, <2>7, <2>8 DEF Damaged, Migrates, PixmapRecord
  <2>10. Migrates(c, q) /\ q.hw
    BY <2>4, <2>7, <2>8, PreferGmrMigrates
  <2>11. o.ok = TRUE /\ o.p = q
    BY <2>4 DEF Done
  <2> QED
    BY <2>9, <2>10, <2>11, MigratesTransitive
<1> QED
  BY <1>1, <1>2, <1>3 DEF CorePixmap, PixmapRecord

----------------------------------------------------------------------------
(* Transfers write the bits of one place and nothing else.                 *)
LEMMA BitsMigrate ==
  ASSUME NEW p \in CorePixmap, NEW b \in Image, NEW q,
         \/ q = [p EXCEPT !.sw_bits = b]
         \/ q = [p EXCEPT !.hw_bits = b]
  PROVE  Migrates(p, q) /\ (q.hw <=> p.hw)
<1>1. /\ q \in PixmapRecord
      /\ q.malloc = p.malloc /\ q.gmr = p.gmr /\ q.hw = p.hw
      /\ q.backing = p.backing /\ q.damage = p.damage /\ q.scanout = p.scanout
      /\ q.dirty_shadow = p.dirty_shadow /\ q.dirty_hw = p.dirty_hw
      /\ q.dirty_present = p.dirty_present
      /\ q.pending_update = p.pending_update
      /\ q.pending_present = p.pending_present /\ q.fronts = p.fronts
  BY DEF CorePixmap, PixmapRecord
<1>2. StorageOK(q) /\ DirtyOK(q)
  BY <1>1 DEF CorePixmap, StorageOK, DirtyOK
<1> QED
  BY <1>1, <1>2 DEF CorePixmap, Migrates

(* Reducing the regions that mark something stale keeps them apart.        *)
DropHw(p, R)     == [p EXCEPT !.dirty_hw = @ \ R]
DropShadow(p, R) == [p EXCEPT !.dirty_shadow = @ \ R]
DropStale(p, R)  == [p EXCEPT !.dirty_shadow = @ \ R, !.dirty_present = @ \ R]

(* ... so it is a migration, whatever tiles are dropped.                   *)
LEMMA ShrinkMigrates ==
  ASSUME NEW p \in CorePixmap, NEW R
  PROVE  /\ Migrates(p, DropHw(p, R)) /\ (DropHw(p, R).hw <=> p.hw)
         /\ Migrates(p, DropShadow(p, R)) /\ (DropShadow(p, R).hw <=> p.hw)
         /\ Migrates(p, DropStale(p, R)) /\ (DropStale(p, R).hw <=> p.hw)
<1>1. SUFFICES ASSUME NEW q \in {DropHw(p, R), DropShadow(p, R), DropStale(p,
R)}
               PROVE  Migrates(p, q) /\ (q.hw <=> p.hw)
  OBVIOUS
<1>2. /\ q \in PixmapRecord
      /\ q.malloc = p.malloc /\ q.gmr = p.gmr /\ q.hw = p.hw
      /\ q.backing = p.backing /\ q.damage = p.damage /\ q.scanout = p.scanout
      /\ q.dirty_shadow \subseteq p.dirty_shadow
      /\ q.dirty_hw \subseteq p.dirty_hw
      /\ q.dirty_present \subseteq p.dirty_present
      /\ q.pending_update = p.pending_update
      /\ q.pending_present = p.pending_present /\ q.fronts = p.fronts
  <2>1. CASE q = DropHw(p, R)
    BY <2>1 DEF DropHw, CorePixmap, PixmapRecord
  <2>2. CASE q = DropShadow(p, R)
    BY <2>2 DEF DropShadow, CorePixmap, PixmapRecord
  <2>3. CASE q = DropStale(p, R)
    BY <2>3 DEF DropStale, CorePixmap, PixmapRecord
  <2> QED
    BY <1>1, <2>1, <2>2, <2>3
<1>3. StorageOK(q)
  BY <1>2 DEF CorePixmap, StorageOK
<1>4. DirtyOK(q)
  BY <1>2 DEF CorePixmap, DirtyOK
<1> QED
  BY <1>2, <1>3, <1>4 DEF CorePixmap, Migrates

(* A present readback writes the GMR alone.                                *)
LEMMA ReadbackCallMigrates ==
  ASSUME NEW p \in CorePixmap, NEW R, NEW fb, NEW o \in ReadbackCall(p, R, fb)
  PROVE  o.ok \in BOOLEAN /\ Migrates(p, o.p) /\ (o.p.hw <=> p.hw)
<1>1. o.ok \in BOOLEAN /\ (o.p = p \/ o.p = [p EXCEPT !.sw_bits = Overlay(@, R, p.fb_bits)])
  <2>1. \/ o = Failed(p) \/ o = Done(p)
        \/ o = Done([p EXCEPT !.sw_bits = Overlay(@, R, p.fb_bits)])
    BY DEF ReadbackCall
  <2> QED
    BY <2>1, DoneIs, FailedIs
<1>2. Overlay(p.sw_bits, R, p.fb_bits) \in Image
  BY OverlayType DEF CorePixmap, PixmapRecord
<1> QED
  BY <1>1, <1>2, BitsMigrate, MigratesReflexive

(* vmwgfx_pixmap_present_readback only migrates, framebuffer or not.       *)
LEMMA PresentReadbackMigrates ==
  ASSUME NEW p \in CorePixmap, NEW R, NEW fb, NEW o \in PresentReadback(p, R,
         fb)
  PROVE  o.ok \in BOOLEAN /\ Migrates(p, o.p) /\ (o.p.hw <=> p.hw)
<1> DEFINE lost == p.dirty_hw \cap p.dirty_present \cap R
<1>1. CASE o = Done(p)
  BY <1>1, MigratesReflexive DEF Done
<1>2. CASE o # Done(p)
  <2>1. PICK g \in CreateGmr(p) :
          o \in IF g.ok
                THEN { IF c.ok THEN Done([c.p EXCEPT !.dirty_hw = @ \ lost]) ELSE c :
                       c \in ReadbackCall(g.p, lost, fb) }
                ELSE {g}
    BY <1>2 DEF PresentReadback
  <2>2. Migrates(p, g.p) /\ (g.p.hw <=> p.hw) /\ g.p \in CorePixmap /\ g.ok \in BOOLEAN
    BY CreateGmrMigrates, MigratesInOrder
  <2>3. CASE ~g.ok
    BY <2>1, <2>2, <2>3
  <2>4. CASE g.ok
    <3>1. PICK c \in ReadbackCall(g.p, lost, fb) :
            o = IF c.ok THEN Done([c.p EXCEPT !.dirty_hw = @ \ lost]) ELSE c
      BY <2>1, <2>4
    <3>2. Migrates(g.p, c.p) /\ (c.p.hw <=> p.hw) /\ c.p \in CorePixmap /\ c.ok \in BOOLEAN
      BY <2>2, ReadbackCallMigrates, MigratesInOrder
    <3>3. CASE ~c.ok
      BY <2>2, <3>1, <3>2, <3>3, MigratesTransitive
    <3>4. CASE c.ok
      <4>1. o.ok = TRUE /\ o.p = DropHw(c.p, lost)
        BY <3>1, <3>4 DEF Done, DropHw
      <4>2. Migrates(c.p, o.p) /\ (o.p.hw <=> c.p.hw)
        BY <3>2, <4>1, ShrinkMigrates
      <4>3. Migrates(p, c.p)
        BY <2>2, <3>2, MigratesTransitive
      <4> QED
        <5>1. Migrates(p, o.p)
          BY <4>2, <4>3, MigratesTransitive
        <5> QED
          BY <3>2, <4>1, <4>2, <5>1
    <3> QED
      BY <3>3, <3>4
  <2> QED
    BY <2>3, <2>4
<1> QED
  BY <1>1, <1>2

(* A transfer writes the place it goes to alone.                           *)
LEMMA DmaMigrates ==
  ASSUME NEW p \in CorePixmap, NEW R, NEW to_hw, NEW o \in Dma(p, R, to_hw)
  PROVE  o.ok \in BOOLEAN /\ Migrates(p, o.p) /\ (o.p.hw <=> p.hw)
<1>1. /\ o.ok \in BOOLEAN
      /\ \/ o.p = p
         \/ o.p = [p EXCEPT !.hw_bits = Overlay(@, R, p.sw_bits)]
         \/ o.p = [p EXCEPT !.sw_bits = Overlay(@, R, p.hw_bits)]
  <2>1. \/ o = Failed(p) \/ o = Done(p)
        \/ o = Done([p EXCEPT !.hw_bits = Overlay(@, R, p.sw_bits)])
        \/ o = Done([p EXCEPT !.sw_bits = Overlay(@, R, p.hw_bits)])
    BY DEF Dma
  <2> QED
    BY <2>1, DoneIs, FailedIs
<1>2. /\ Overlay(p.hw_bits, R, p.sw_bits) \in Image
      /\ Overlay(p.sw_bits, R, p.hw_bits) \in Image
  BY OverlayType DEF CorePixmap, PixmapRecord
<1> QED
  BY <1>1, <1>2, BitsMigrate, MigratesReflexive

(* A download of surface tiles only migrates.                              *)
LEMMA DownloadSurfaceMigrates ==
  ASSUME NEW p \in CorePixmap, NEW R, NEW o \in DownloadSurface(p, R)
  PROVE  o.ok \in BOOLEAN /\ Migrates(p, o.p) /\ (o.p.hw <=> p.hw)
<1>1. PICK a \in CreateSw(p) :
        o \in IF a.ok
              THEN { IF c.ok THEN Done([c.p EXCEPT !.dirty_hw = @ \ R]) ELSE c :
                     c \in Dma(a.p, R, FALSE) }
              ELSE {a}
  BY DEF DownloadSurface
<1>2. Migrates(p, a.p) /\ (a.p.hw <=> p.hw) /\ a.p \in CorePixmap /\ a.ok \in BOOLEAN
  BY CreateSwMigrates, MigratesInOrder
<1>3. CASE ~a.ok
  BY <1>1, <1>2, <1>3
<1>4. CASE a.ok
  <2>1. PICK c \in Dma(a.p, R, FALSE) :
          o = IF c.ok THEN Done([c.p EXCEPT !.dirty_hw = @ \ R]) ELSE c
    BY <1>1, <1>4
  <2>2. Migrates(a.p, c.p) /\ (c.p.hw <=> p.hw) /\ c.p \in CorePixmap /\ c.ok \in BOOLEAN
    <3>1. c.ok \in BOOLEAN /\ Migrates(a.p, c.p) /\ (c.p.hw <=> a.p.hw)
      BY <1>2, DmaMigrates
    <3> QED
      BY <1>2, <3>1, MigratesInOrder
  <2>3. CASE ~c.ok
    BY <1>2, <2>1, <2>2, <2>3, MigratesTransitive
  <2>4. CASE c.ok
    <3>1. o.ok = TRUE /\ o.p = DropHw(c.p, R)
      BY <2>1, <2>4 DEF Done, DropHw
    <3>2. Migrates(c.p, o.p) /\ (o.p.hw <=> c.p.hw)
      BY <2>2, <3>1, ShrinkMigrates
    <3>3. Migrates(p, c.p)
      BY <1>2, <2>2, MigratesTransitive
    <3> QED
      <4>1. Migrates(p, o.p)
        BY <3>2, <3>3, MigratesTransitive
      <4> QED
        BY <2>2, <3>1, <3>2, <4>1
  <2> QED
    BY <2>3, <2>4
<1> QED
  BY <1>2, <1>3, <1>4

(* vmwgfx_download_from_hw only migrates, also when it stops half way.     *)
LEMMA DownloadFromHwMigrates ==
  ASSUME NEW p \in CorePixmap, NEW R, NEW o \in DownloadFromHw(p, R)
  PROVE  o.ok \in BOOLEAN /\ Migrates(p, o.p) /\ (o.p.hw <=> p.hw)
<1>1. PICK a \in PresentReadback(p, R, TRUE) :
        o \in IF ~a.ok \/ a.p.dirty_hw = {} \/ ~a.p.hw THEN {a}
              ELSE DownloadSurface(a.p, R \cap a.p.dirty_hw)
  BY DEF DownloadFromHw
<1>2. Migrates(p, a.p) /\ (a.p.hw <=> p.hw) /\ a.p \in CorePixmap /\ a.ok \in BOOLEAN
  BY PresentReadbackMigrates, MigratesInOrder
<1>3. CASE o = a
  BY <1>2, <1>3
<1>4. CASE o \in DownloadSurface(a.p, R \cap a.p.dirty_hw)
  BY <1>2, <1>4, DownloadSurfaceMigrates, MigratesTransitive
<1> QED
  BY <1>1, <1>3, <1>4

(* Uploading all that is stale in the surface only migrates.               *)
LEMMA FlushShadowMigrates ==
  ASSUME NEW p \in CorePixmap, NEW o \in FlushShadow(p)
  PROVE  o.ok \in BOOLEAN /\ Migrates(p, o.p)
<1>1. PICK a \in Dma(p, p.dirty_shadow, TRUE) :
        o = IF a.ok THEN Done([a.p EXCEPT !.dirty_shadow = {}]) ELSE a
  BY DEF FlushShadow, UploadToHw
<1>2. Migrates(p, a.p) /\ a.p \in CorePixmap /\ a.ok \in BOOLEAN
  BY DmaMigrates, MigratesInOrder
<1>3. CASE ~a.ok
  BY <1>1, <1>2, <1>3
<1>4. CASE a.ok
  <2>1. o.ok = TRUE /\ o.p = [a.p EXCEPT !.dirty_shadow = {}]
    BY <1>1, <1>4 DEF Done
  <2>2. o.p = [a.p EXCEPT !.dirty_shadow = @ \ Tiles]
    BY <1>2, <2>1 DEF CorePixmap, PixmapRecord
  <2>3. Migrates(a.p, o.p)
    BY <1>2, <2>2, ShrinkMigrates DEF DropShadow
  <2> QED
    BY <1>2, <2>1, <2>3, MigratesTransitive
<1> QED
  BY <1>3, <1>4

(* So does uploading what is stale in part of it.                          *)
LEMMA UploadStaleMigrates ==
  ASSUME NEW p \in CorePixmap, NEW R, NEW o \in UploadStale(p, R)
  PROVE  o.ok \in BOOLEAN /\ Migrates(p, o.p) /\ (o.p.hw <=> p.hw)
<1> DEFINE stale == (p.dirty_shadow \cup p.dirty_present) \cap R
<1>1. CASE o = Done(p)
  BY <1>1, MigratesReflexive DEF Done
<1>2. CASE o # Done(p)
  <2>1. PICK a \in Dma(p, stale, TRUE) :
          o = IF a.ok THEN Done([a.p EXCEPT !.dirty_shadow = @ \ stale,
                                            !.dirty_present = @ \ stale])
                      ELSE a
    BY <1>2 DEF UploadStale, UploadToHw
  <2>2. Migrates(p, a.p) /\ (a.p.hw <=> p.hw) /\ a.p \in CorePixmap /\ a.ok \in BOOLEAN
    <3>1. a.ok \in BOOLEAN /\ Migrates(p, a.p) /\ (a.p.hw <=> p.hw)
      BY DmaMigrates
    <3> QED
      BY <3>1, MigratesInOrder
  <2>3. CASE ~a.ok
    BY <2>1, <2>2, <2>3
  <2>4. CASE a.ok
    <3>1. o.ok = TRUE /\ o.p = DropStale(a.p, stale)
      BY <2>1, <2>4 DEF Done, DropStale
    <3>2. Migrates(a.p, o.p) /\ (o.p.hw <=> a.p.hw)
      BY <2>2, <3>1, ShrinkMigrates
    <3> QED
      <4>1. Migrates(p, o.p)
        BY <2>2, <3>2, MigratesTransitive
      <4> QED
        BY <2>2, <3>1, <3>2, <4>1
  <2> QED
    BY <2>3, <2>4
<1> QED
  BY <1>1, <1>2

(* vmwgfx_hw_validate only migrates, also when the upload fails.           *)
LEMMA HwValidateMigrates ==
  ASSUME NEW p \in CorePixmap, NEW R, NEW o \in HwValidate(p, R)
  PROVE  o.ok \in BOOLEAN /\ Migrates(p, o.p) /\ (o.p.hw <=> p.hw)
<1>1. PICK a \in PresentReadback(p, R, TRUE) :
        o \in IF a.ok THEN UploadStale(a.p, R) ELSE {a}
  BY DEF HwValidate
<1>2. Migrates(p, a.p) /\ (a.p.hw <=> p.hw) /\ a.p \in CorePixmap /\ a.ok \in BOOLEAN
  BY PresentReadbackMigrates, MigratesInOrder
<1>3. CASE ~a.ok
  BY <1>1, <1>2, <1>3
<1>4. CASE a.ok
  BY <1>1, <1>2, <1>4, UploadStaleMigrates, MigratesTransitive
<1> QED
  BY <1>2, <1>3, <1>4

(* vmwgfx_hw_kill gives up the surface and keeps the pixmap in order.      *)
LEMMA HwKillMigrates ==
  ASSUME NEW p \in CorePixmap, NEW o \in HwKill(p)
  PROVE  o.ok \in BOOLEAN /\ Migrates(p, o.p)
<1>1. CASE ~p.hw
  <2>1. o = Done(p)
    BY <1>1 DEF HwKill
  <2> QED
    BY <2>1, DoneIs, MigratesReflexive
<1>2. CASE p.hw
  <2>1. PICK a \in DownloadFromHw(p, p.dirty_hw) :
          o = IF a.ok
              THEN LET q == [a.p EXCEPT !.hw = FALSE, !.hw_bits = Blank]
                   IN Done(IF q.scanout THEN q ELSE RemoveDamage(q))
              ELSE a
    BY <1>2 DEF HwKill
  <2>2. a.ok \in BOOLEAN /\ Migrates(p, a.p)
    BY DownloadFromHwMigrates
  <2>3. CASE ~a.ok
    BY <2>1, <2>2, <2>3
  <2>4. CASE a.ok
    <3> DEFINE q == [a.p EXCEPT !.hw = FALSE, !.hw_bits = Blank]
               r == IF q.scanout THEN q ELSE RemoveDamage(q)
    <3>1. o.ok = TRUE /\ o.p = r
      BY <2>1, <2>4, DoneIs
    <3>2. a.p \in PixmapRecord /\ StorageOK(a.p) /\ DirtyOK(a.p)
      BY <2>2, MigratesInOrder DEF CorePixmap
    <3>3. /\ q \in PixmapRecord
          /\ q.hw = FALSE /\ q.malloc = a.p.malloc /\ q.gmr = a.p.gmr
          /\ q.backing = a.p.backing /\ q.damage = a.p.damage
          /\ q.scanout = a.p.scanout /\ q.fronts = a.p.fronts
          /\ q.dirty_shadow = a.p.dirty_shadow /\ q.dirty_hw = a.p.dirty_hw
          /\ q.dirty_present = a.p.dirty_present
          /\ q.pending_update = a.p.pending_update
          /\ q.pending_present = a.p.pending_present
      BY <3>2, BlankType DEF PixmapRecord
    <3> HIDE DEF q
    <3>4. /\ r \in PixmapRecord
          /\ r.hw = FALSE /\ r.malloc = q.malloc /\ r.gmr = q.gmr
          /\ r.backing = q.backing
          /\ r.damage = (q.damage /\ (q.scanout \/ q.gmr \/ q.malloc))
          /\ r.scanout = q.scanout /\ r.fronts = q.fronts
          /\ r.dirty_shadow = q.dirty_shadow /\ r.dirty_hw = q.dirty_hw
          /\ r.dirty_present = q.dirty_present
          /\ r.pending_update = q.pending_update
          /\ r.pending_present = q.pending_present
      <4>1. CASE r = q
        <5>1. q.scanout \/ q.gmr \/ q.malloc \/ q.damage = FALSE
          BY <3>3, <4>1 DEF RemoveDamage, PixmapRecord
        <5> QED
          BY <3>3, <4>1, <5>1 DEF PixmapRecord
      <4>2. CASE r # q
        <5>1. ~q.scanout /\ ~q.gmr /\ ~q.malloc /\ r = [q EXCEPT !.damage = FALSE]
          BY <4>2 DEF RemoveDamage
        <5> QED
          BY <3>3, <5>1 DEF PixmapRecord
      <4> QED
        BY <4>1, <4>2
    <3> HIDE DEF r
    <3>5. StorageOK(r)
      BY <3>2, <3>3, <3>4 DEF StorageOK, PixmapRecord
    <3>6. DirtyOK(r)
      BY <3>2, <3>3, <3>4 DEF DirtyOK
    <3>7. Migrates(a.p, r)
      BY <3>2, <3>3, <3>4, <3>5, <3>6 DEF Migrates, CorePixmap
    <3>8. Migrates(p, r)
      BY <2>2, <3>7, MigratesTransitive
    <3> QED
      BY <3>1, <3>8
  <2> QED
    BY <2>2, <2>3, <2>4
<1> QED
  BY <1>1, <1>2 DEF CorePixmap, PixmapRecord

(* vmwgfx_hw_commit only migrates, and leaves a surface if it works.       *)
LEMMA HwCommitMigrates ==
  ASSUME NEW p \in CorePixmap, NEW o \in HwCommit(p)
  PROVE  o.ok \in BOOLEAN /\ Migrates(p, o.p) /\ (o.ok => o.p.hw)
<1>1. PICK a \in {Done(p)} \cup
                 (IF p.hw /\ "format_change" \in Hazards THEN HwKill(p) ELSE {}) :
        o \in CASE ~a.ok          -> {a}
                [] a.ok /\ a.p.hw   -> {Done(a.p), Failed(a.p)}
                [] a.ok /\ ~a.p.hw  -> CreateHw(a.p)
  BY DEF HwCommit
<1>2. a.ok \in BOOLEAN /\ Migrates(p, a.p)
  <2>1. CASE a = Done(p)
    BY <2>1, DoneIs, MigratesReflexive
  <2>2. CASE a \in HwKill(p)
    BY <2>2, HwKillMigrates
  <2> QED
    BY <1>1, <2>1, <2>2
<1>3. a.p \in CorePixmap
  BY <1>2, MigratesInOrder
<1>4. CASE ~a.ok
  <2>1. o = a
    BY <1>1, <1>4
  <2> QED
    BY <1>2, <1>4, <2>1
<1>5. CASE a.ok /\ a.p.hw
  <2>1. o = Done(a.p) \/ o = Failed(a.p)
    BY <1>1, <1>5
  <2> QED
    BY <1>2, <1>5, <2>1, DoneIs, FailedIs
<1>6. CASE a.ok /\ ~a.p.hw
  <2>1. o \in CreateHw(a.p)
    BY <1>1, <1>6
  <2> QED
    BY <1>2, <1>3, <2>1, CreateHwMigrates, MigratesTransitive
<1> QED
  BY <1>2, <1>4, <1>5, <1>6

(* vmwgfx_hw_accel_validate likewise, whichever of its steps fails.        *)
LEMMA HwAccelValidateMigrates ==
  ASSUME NEW p \in CorePixmap, NEW R, NEW o \in HwAccelValidate(p, R)
  PROVE  o.ok \in BOOLEAN /\ Migrates(p, o.p) /\ (o.ok => o.p.hw)
<1>1. CASE o = Failed(p)
  BY <1>1, FailedIs, MigratesReflexive
<1>2. CASE o # Failed(p)
  <2>1. PICK a \in HwCommit(p) : o \in IF a.ok THEN HwValidate(a.p, R) ELSE {a}
    BY <1>2 DEF HwAccelValidate
  <2>2. a.ok \in BOOLEAN /\ Migrates(p, a.p) /\ (a.ok => a.p.hw)
    BY HwCommitMigrates
  <2>3. CASE ~a.ok
    <3>1. o = a
      BY <2>1, <2>3
    <3> QED
      BY <2>2, <2>3, <3>1
  <2>4. CASE a.ok
    <3>1. o \in HwValidate(a.p, R)
      BY <2>1, <2>4
    <3>2. a.p \in CorePixmap
      BY <2>2, MigratesInOrder
    <3>3. o.ok \in BOOLEAN /\ Migrates(a.p, o.p) /\ (o.p.hw <=> a.p.hw)
      BY <3>1, <3>2, HwValidateMigrates
    <3> QED
      BY <2>2, <2>4, <3>3, MigratesTransitive
  <2> QED
    BY <2>2, <2>3, <2>4
<1> QED
  BY <1>1, <1>2

----------------------------------------------------------------------------
(* The framebuffer's part.                                                 *)

(* Pending work is the same after a migration, and as consistent.          *)
LEMMA MigratesGood ==
  ASSUME NEW p \in GoodPixmap, NEW q, Migrates(p, q)
  PROVE  q \in GoodPixmap
BY DEF GoodPixmap, Migrates, PendingOK

(* What a write to the framebuffer, or a note of pending work, leaves      *)
(* alone.                                                                  *)
SameBut(p, q) ==
  /\ q \in PixmapRecord
  /\ q.backing = p.backing /\ q.damage = p.damage
  /\ q.malloc = p.malloc /\ q.gmr = p.gmr /\ q.hw = p.hw
  /\ q.dirty_shadow = p.dirty_shadow /\ q.dirty_hw = p.dirty_hw
  /\ q.dirty_present = p.dirty_present
  /\ q.scanout = p.scanout /\ q.fronts = p.fronts

(* Such a step disturbs neither storage nor regions.                       *)
LEMMA SameButOK ==
  ASSUME NEW p, NEW q, SameBut(p, q)
  PROVE  (StorageOK(p) => StorageOK(q)) /\ (DirtyOK(p) => DirtyOK(q))
BY DEF SameBut, StorageOK, DirtyOK

(* Telling the framebuffer of damage is such a step, and so is failing to. *)
LEMMA ScanoutUpdateKeeps ==
  ASSUME NEW p \in PixmapRecord, NEW R, NEW bits \in Image,
         NEW q \in ScanoutUpdate(p, R, bits)
  PROVE  SameBut(p, q)
<1>1. q = p \/ q = [p EXCEPT !.fb_bits = Overlay(@, R, bits)]
  BY DEF ScanoutUpdate
<1>2. Overlay(p.fb_bits, R, bits) \in Image
  BY OverlayType DEF PixmapRecord
<1>3. CASE q = p
  BY <1>3 DEF SameBut
<1>4. CASE q # p
  BY <1>1, <1>2, <1>4 DEF SameBut, PixmapRecord
<1> QED
  BY <1>3, <1>4

(* A flush leaves nothing pending.  Only with HwPresents does it migrate   *)
(* contents.                                                               *)
LEMMA FlushSettles ==
  ASSUME NEW p \in PixmapRecord, p.scanout, StorageOK(p),
         OnlyHwPresents => DirtyOK(p), NEW r \in Flush(p)
  PROVE  /\ r \in PixmapRecord /\ StorageOK(r)
         /\ r.scanout = p.scanout /\ r.fronts = p.fronts
         /\ r.pending_update = {} /\ r.pending_present = {}
         /\ r.dirty_hw \subseteq p.dirty_hw
         /\ r.dirty_present \subseteq p.dirty_present
         /\ OnlyHwPresents => DirtyOK(r)
         /\ ~OnlyHwPresents => /\ r.dirty_shadow = p.dirty_shadow
                               /\ r.dirty_hw = p.dirty_hw
                               /\ r.dirty_present = p.dirty_present
<1> DEFINE updated == IF OnlyHwPresents THEN UploadPending(p)
                      ELSE ScanoutUpdate(p, p.pending_update, p.sw_bits)
           present(q) == IF OnlyHwPresents
                         THEN ScanoutUpdate(q, q.pending_present, q.hw_bits)
                         ELSE ScanoutPresent(q, q.pending_present)
<1>1. PICK q \in updated :
        r \in { [x EXCEPT !.pending_update = {}, !.pending_present = {},
                         !.unshown = @ \ p.pending_present] : x \in present(q) }
  BY DEF Flush
<1>a. PICK x \in present(q) :
        r = [x EXCEPT !.pending_update = {}, !.pending_present = {},
                      !.unshown = @ \ p.pending_present]
  BY <1>1
<1>2. /\ q \in PixmapRecord /\ StorageOK(q)
      /\ q.scanout = p.scanout /\ q.fronts = p.fronts
      /\ q.dirty_hw \subseteq p.dirty_hw
      /\ q.dirty_present \subseteq p.dirty_present
      /\ OnlyHwPresents => DirtyOK(q)
      /\ ~OnlyHwPresents => SameBut(p, q)
  <2>1. CASE OnlyHwPresents /\ p.pending_update = {}
    BY <2>1 DEF UploadPending
  <2>2. CASE OnlyHwPresents /\ p.pending_update # {}
    <3>1. PICK o \in HwAccelValidate(p, Tiles) :
            q = [o.p EXCEPT !.pending_present = @ \cup p.pending_update,
                            !.unshown = IF o.ok THEN @ \ p.pending_update
                                        ELSE @ \cup p.pending_update]
      BY <2>2 DEF UploadPending
    <3>2. p \in CorePixmap
      BY <2>2 DEF CorePixmap
    <3>3. Migrates(p, o.p)
      BY <3>2, HwAccelValidateMigrates
    <3>4. o.p \in PixmapRecord /\ StorageOK(o.p) /\ DirtyOK(o.p)
      BY <3>3, MigratesInOrder DEF CorePixmap
    <3>5. SameBut(o.p, q)
      BY <3>1, <3>4 DEF SameBut, PixmapRecord
    <3>6. StorageOK(q) /\ DirtyOK(q)
      BY <3>4, <3>5, SameButOK
    <3> QED
      BY <2>2, <3>3, <3>5, <3>6 DEF SameBut, Migrates
  <2>3. CASE ~OnlyHwPresents
    <3>1. SameBut(p, q)
      BY <2>3, ScanoutUpdateKeeps DEF PixmapRecord
    <3> QED
      BY <2>3, <3>1, SameButOK DEF SameBut
  <2> QED
    BY <2>1, <2>2, <2>3
<1>3. SameBut(q, x)
  <2>1. CASE x = q
    BY <1>2, <2>1 DEF SameBut
  <2>2. CASE x # q
    <3>1. x \in ScanoutUpdate(q, q.pending_present, q.hw_bits)
      BY <2>2 DEF ScanoutPresent
    <3>2. q.hw_bits \in Image
      BY <1>2 DEF PixmapRecord
    <3> QED
      BY <1>2, <3>1, <3>2, ScanoutUpdateKeeps
  <2> QED
    BY <2>1, <2>2
<1>4. SameBut(x, r) /\ r.pending_update = {} /\ r.pending_present = {}
  <2>1. x \in PixmapRecord
    BY <1>3 DEF SameBut
  <2> QED
    BY <1>a, <2>1 DEF SameBut, PixmapRecord
<1>5. SameBut(q, r)
  BY <1>3, <1>4 DEF SameBut
<1>6. StorageOK(r) /\ (OnlyHwPresents => DirtyOK(r))
  BY <1>2, <1>5, SameButOK
<1> HIDE DEF updated, present
<1> QED
  BY <1>2, <1>4, <1>5, <1>6 DEF SameBut

(* xorg_flush keeps a pixmap in order and settles what was pending.        *)
LEMMA FlushGood ==
  ASSUME NEW p \in GoodPixmap, NEW r \in Flush(p)
  PROVE  /\ r \in GoodPixmap /\ r.scanout = p.scanout
         /\ r.pending_update = {} /\ r.pending_present = {}
<1>1. CASE p.scanout
  <2>1. p \in PixmapRecord /\ StorageOK(p) /\ DirtyOK(p)
    BY DEF GoodPixmap, CorePixmap
  <2>2. /\ r \in PixmapRecord /\ StorageOK(r) /\ r.scanout = p.scanout
        /\ r.pending_update = {} /\ r.pending_present = {}
        /\ OnlyHwPresents => DirtyOK(r)
        /\ ~OnlyHwPresents => /\ r.dirty_shadow = p.dirty_shadow
                              /\ r.dirty_hw = p.dirty_hw
                              /\ r.dirty_present = p.dirty_present
    BY <1>1, <2>1, FlushSettles
  <2>3. DirtyOK(r)
    BY <1>1, <2>1, <2>2 DEF DirtyOK
  <2>4. PendingOK(r)
    BY <2>2 DEF PendingOK
  <2> QED
    BY <2>2, <2>3, <2>4 DEF GoodPixmap, CorePixmap
<1>2. CASE ~p.scanout
  BY <1>2 DEF Flush, GoodPixmap, CorePixmap, PixmapRecord, PendingOK
<1> QED
  BY <1>1, <1>2

(* Software damage leaves the regions apart: the tiles drawn are stale in  *)
(* the surface alone, and waiting to be sent to the framebuffer.           *)
LEMMA DirtySwGood ==
  ASSUME NEW p \in GoodPixmap, NEW R \in SUBSET Tiles, NEW r \in DirtySw(p, R)
  PROVE  r \in GoodPixmap /\ (r.scanout <=> p.scanout)
<1> DEFINE q == [p EXCEPT !.dirty_shadow = @ \cup R, !.dirty_hw = @ \ R]
<1>1. p \in PixmapRecord /\ StorageOK(p) /\ DirtyOK(p) /\ PendingOK(p)
  BY DEF GoodPixmap, CorePixmap
<1>2. /\ q \in PixmapRecord
      /\ q.malloc = p.malloc /\ q.gmr = p.gmr /\ (q.hw <=> p.hw)
      /\ q.backing = p.backing /\ q.damage = p.damage /\ (q.scanout <=> p.scanout)
      /\ q.dirty_shadow = p.dirty_shadow \cup R /\ q.dirty_hw = p.dirty_hw \ R
      /\ q.dirty_present = p.dirty_present
      /\ q.pending_update = p.pending_update
      /\ q.pending_present = p.pending_present /\ q.fronts = p.fronts
  BY <1>1 DEF PixmapRecord
<1>3. \/ ~q.scanout /\ r = q
      \/ /\ q.scanout
         /\ \E x \in (IF q.pending_present \cap R # {} THEN Flush(q) ELSE {q}) :
              r = [x EXCEPT !.pending_update = @ \cup R, !.dirty_present = @ \ R]
  BY DEF DirtySw
<1> HIDE DEF q
<1>4. StorageOK(q)
  BY <1>1, <1>2 DEF StorageOK, PixmapRecord
<1>5. p.dirty_present = {} => DirtyOK(q)
  BY <1>1, <1>2 DEF DirtyOK
<1>6. CASE ~q.scanout
  <2>1. p.dirty_present = {}
    BY <1>1, <1>2, <1>6 DEF DirtyOK
  <2>2. PendingOK(q)
    BY <1>1, <1>2, <1>6 DEF PendingOK
  <2> QED
    BY <1>2, <1>3, <1>4, <1>5, <1>6, <2>1, <2>2 DEF GoodPixmap, CorePixmap
<1>7. CASE q.scanout
  <2>1. PICK x \in (IF q.pending_present \cap R # {} THEN Flush(q) ELSE {q}) :
          r = [x EXCEPT !.pending_update = @ \cup R, !.dirty_present = @ \ R]
    BY <1>3, <1>7
  <2>2. /\ x \in PixmapRecord /\ StorageOK(x) /\ (x.scanout <=> p.scanout)
        /\ x.dirty_hw \cap R = {}
        /\ x.dirty_present \subseteq p.dirty_present
        /\ x.dirty_shadow \cap (x.dirty_hw \cup (x.dirty_present \ R)) = {}
        /\ \/ x.pending_update = {} /\ x.pending_present = {}
           \/ /\ x.pending_update = p.pending_update
              /\ x.pending_present = p.pending_present
              /\ x.dirty_hw \subseteq p.dirty_hw
              /\ p.pending_present \cap R = {}
    <3>1. CASE x = q
      <4>1. q.pending_present \cap R = {} \/ q.pending_present \cap R # {}
        OBVIOUS
      <4>2. CASE q.pending_present \cap R = {}
        BY <1>1, <1>2, <1>4, <3>1, <4>2 DEF DirtyOK
      <4>3. CASE q.pending_present \cap R # {}
        <5>1. x \in Flush(q)
          BY <2>1, <4>3
        <5>2. OnlyHwPresents => DirtyOK(q)
          BY <1>1, <1>5, OptionsAssumption DEF DirtyOK
        <5>3. x.pending_present = {}
          BY <1>2, <1>4, <1>7, <5>1, <5>2, FlushSettles
        <5> QED
          BY <3>1, <4>3, <5>3
      <4> QED
        BY <4>1, <4>2, <4>3
    <3>2. CASE x # q
      <4>1. x \in Flush(q)
        BY <2>1, <3>2
      <4>2. OnlyHwPresents => DirtyOK(q) /\ q.dirty_present = {}
        BY <1>1, <1>2, <1>5, OptionsAssumption DEF DirtyOK
      <4>3. /\ x \in PixmapRecord /\ StorageOK(x) /\ x.scanout = q.scanout
            /\ x.pending_update = {} /\ x.pending_present = {}
            /\ x.dirty_hw \subseteq q.dirty_hw
            /\ x.dirty_present \subseteq q.dirty_present
            /\ OnlyHwPresents => DirtyOK(x)
            /\ ~OnlyHwPresents => /\ x.dirty_shadow = q.dirty_shadow
                                  /\ x.dirty_hw = q.dirty_hw
                                  /\ x.dirty_present = q.dirty_present
        BY <1>2, <1>4, <1>7, <4>1, <4>2, FlushSettles
      <4>4. x.dirty_shadow \cap (x.dirty_hw \cup (x.dirty_present \ R)) = {}
        <5>1. CASE OnlyHwPresents
          BY <4>3, <5>1 DEF DirtyOK
        <5>2. CASE ~OnlyHwPresents
          BY <1>1, <1>2, <4>3, <5>2 DEF DirtyOK
        <5> QED
          BY <5>1, <5>2
      <4> QED
        BY <1>2, <4>3, <4>4
    <3> QED
      BY <3>1, <3>2
  <2>3. /\ r \in PixmapRecord
        /\ r.malloc = x.malloc /\ r.gmr = x.gmr /\ (r.hw <=> x.hw)
        /\ r.backing = x.backing /\ r.damage = x.damage /\ (r.scanout <=> x.scanout)
        /\ r.dirty_shadow = x.dirty_shadow /\ r.dirty_hw = x.dirty_hw
        /\ r.dirty_present = x.dirty_present \ R
        /\ r.pending_update = x.pending_update \cup R
        /\ r.pending_present = x.pending_present
    BY <2>1, <2>2 DEF PixmapRecord
  <2>4. StorageOK(r)
    BY <2>2, <2>3 DEF StorageOK, PixmapRecord
  <2>5. DirtyOK(r)
    BY <1>1, <1>2, <1>7, <2>2, <2>3 DEF DirtyOK
  <2>6. PendingOK(r)
    BY <1>1, <1>2, <1>7, <2>2, <2>3 DEF PendingOK
  <2> QED
    BY <2>2, <2>3, <2>4, <2>5, <2>6 DEF GoodPixmap, CorePixmap
<1> QED
  BY <1>6, <1>7

(* Damage by the device leaves the regions apart: the tiles drawn are      *)
(* stale in software alone, and waiting to be presented.                   *)
LEMMA DirtyHwGood ==
  ASSUME NEW p \in GoodPixmap, NEW R \in SUBSET Tiles, NEW r \in DirtyHw(p, R)
  PROVE  r \in GoodPixmap /\ (r.scanout <=> p.scanout)
<1> DEFINE q == [p EXCEPT !.dirty_hw = @ \cup R, !.dirty_shadow = @ \ R]
<1>1. p \in PixmapRecord /\ StorageOK(p) /\ DirtyOK(p) /\ PendingOK(p)
  BY DEF GoodPixmap, CorePixmap
<1>2. /\ q \in PixmapRecord
      /\ q.malloc = p.malloc /\ q.gmr = p.gmr /\ (q.hw <=> p.hw)
      /\ q.backing = p.backing /\ q.damage = p.damage /\ (q.scanout <=> p.scanout)
      /\ q.dirty_shadow = p.dirty_shadow \ R /\ q.dirty_hw = p.dirty_hw \cup R
      /\ q.dirty_present = p.dirty_present
      /\ q.pending_update = p.pending_update
      /\ q.pending_present = p.pending_present /\ q.fronts = p.fronts
  BY <1>1 DEF PixmapRecord
<1>3. \/ ~q.scanout /\ r = q
      \/ /\ q.scanout
         /\ \E x \in (IF q.pending_update \cap R # {} THEN Flush(q) ELSE {q}) :
              r = [x EXCEPT !.pending_present = @ \cup R, !.dirty_present = @ \ R]
  BY DEF DirtyHw
<1> HIDE DEF q
<1>4. StorageOK(q)
  BY <1>1, <1>2 DEF StorageOK, PixmapRecord
<1>5. DirtyOK(q)
  <2>1. /\ p.dirty_shadow \cap (p.dirty_hw \cup p.dirty_present) = {}
        /\ p.dirty_present # {} => p.scanout /\ DirectPresents
    BY <1>1 DEF DirtyOK
  <2> QED
    BY <1>2, <2>1 DEF DirtyOK
<1>6. CASE ~q.scanout
  <2>1. PendingOK(q)
    BY <1>1, <1>2, <1>6 DEF PendingOK
  <2> QED
    BY <1>2, <1>3, <1>4, <1>5, <1>6, <2>1 DEF GoodPixmap, CorePixmap
<1>7. CASE q.scanout
  <2>1. PICK x \in (IF q.pending_update \cap R # {} THEN Flush(q) ELSE {q}) :
          r = [x EXCEPT !.pending_present = @ \cup R, !.dirty_present = @ \ R]
    BY <1>3, <1>7
  <2>2. /\ x \in PixmapRecord /\ StorageOK(x) /\ DirtyOK(x)
        /\ (x.scanout <=> p.scanout)
        /\ \/ x.pending_update = {} /\ x.pending_present = {}
           \/ x = q /\ p.pending_update \cap R = {}
    <3>1. CASE q.pending_update \cap R = {}
      <4>1. x = q
        BY <2>1, <3>1
      <4> QED
        BY <1>2, <1>4, <1>5, <3>1, <4>1
    <3>2. CASE q.pending_update \cap R # {}
      <4>1. x \in Flush(q)
        BY <2>1, <3>2
      <4>3. /\ x \in PixmapRecord /\ StorageOK(x) /\ x.scanout = q.scanout
            /\ x.pending_update = {} /\ x.pending_present = {}
            /\ OnlyHwPresents => DirtyOK(x)
            /\ ~OnlyHwPresents => /\ x.dirty_shadow = q.dirty_shadow
                                  /\ x.dirty_hw = q.dirty_hw
                                  /\ x.dirty_present = q.dirty_present
        BY <1>2, <1>4, <1>5, <1>7, <4>1, FlushSettles
      <4>4. DirtyOK(x)
        BY <1>5, <1>7, <4>3 DEF DirtyOK
      <4> QED
        BY <1>2, <4>3, <4>4
    <3> QED
      BY <3>1, <3>2
  <2>3. /\ r \in PixmapRecord
        /\ r.malloc = x.malloc /\ r.gmr = x.gmr /\ (r.hw <=> x.hw)
        /\ r.backing = x.backing /\ r.damage = x.damage /\ (r.scanout <=> x.scanout)
        /\ r.dirty_shadow = x.dirty_shadow /\ r.dirty_hw = x.dirty_hw
        /\ r.dirty_present = x.dirty_present \ R
        /\ r.pending_update = x.pending_update
        /\ r.pending_present = x.pending_present \cup R
    BY <2>1, <2>2 DEF PixmapRecord
  <2>4. StorageOK(r)
    BY <2>2, <2>3 DEF StorageOK, PixmapRecord
  <2>5. DirtyOK(r)
    BY <2>2, <2>3 DEF DirtyOK
  <2>6. PendingOK(r)
    BY <1>1, <1>2, <1>7, <2>2, <2>3 DEF PendingOK
  <2> QED
    BY <2>2, <2>3, <2>4, <2>5, <2>6 DEF GoodPixmap, CorePixmap
<1> QED
  BY <1>6, <1>7

(* Writing the bits of any one place keeps a pixmap in order.              *)
LEMMA BitsGood ==
  ASSUME NEW p \in GoodPixmap, NEW b \in Image, NEW q,
         \/ q = [p EXCEPT !.sw_bits = b]
         \/ q = [p EXCEPT !.hw_bits = b]
         \/ q = [p EXCEPT !.fb_bits = b]
  PROVE  /\ q \in GoodPixmap /\ (q.scanout <=> p.scanout)
         /\ q.pending_update = p.pending_update
         /\ q.pending_present = p.pending_present
<1>1. /\ q \in PixmapRecord
      /\ q.malloc = p.malloc /\ q.gmr = p.gmr /\ q.hw = p.hw
      /\ q.backing = p.backing /\ q.damage = p.damage /\ q.scanout = p.scanout
      /\ q.dirty_shadow = p.dirty_shadow /\ q.dirty_hw = p.dirty_hw
      /\ q.dirty_present = p.dirty_present
      /\ q.pending_update = p.pending_update
      /\ q.pending_present = p.pending_present
  BY DEF GoodPixmap, CorePixmap, PixmapRecord
<1>2. StorageOK(q) /\ DirtyOK(q) /\ PendingOK(q)
  BY <1>1 DEF GoodPixmap, CorePixmap, StorageOK, DirtyOK, PendingOK
<1> QED
  BY <1>1, <1>2 DEF GoodPixmap, CorePixmap

(* A present marks tiles of a framebuffer that nothing is pending for.     *)
LEMMA DirtyPresentGood ==
  ASSUME NEW p \in GoodPixmap, TracksPresents(p), NEW R \in SUBSET Tiles,
         p.pending_update = {}, p.pending_present = {}
  PROVE  DirtyPresent(p, R) \in GoodPixmap /\ DirtyPresent(p, R).scanout
<1> DEFINE q == DirtyPresent(p, R)
<1>1. p \in PixmapRecord /\ StorageOK(p) /\ DirtyOK(p)
  BY DEF GoodPixmap, CorePixmap
<1>2. /\ q \in PixmapRecord
      /\ q.malloc = p.malloc /\ q.gmr = p.gmr /\ q.hw = p.hw
      /\ q.backing = p.backing /\ q.damage = p.damage /\ q.scanout = p.scanout
      /\ q.dirty_shadow = p.dirty_shadow \ R /\ q.dirty_hw = p.dirty_hw \cup R
      /\ q.dirty_present = p.dirty_present \cup R
      /\ q.pending_update = {} /\ q.pending_present = {}
  BY <1>1 DEF DirtyPresent, PixmapRecord
<1> HIDE DEF q
<1>3. StorageOK(q)
  BY <1>1, <1>2 DEF StorageOK
<1>4. q.scanout /\ DirectPresents
  BY <1>2 DEF TracksPresents
<1>5. DirtyOK(q) /\ PendingOK(q)
  BY <1>1, <1>2, <1>4 DEF DirtyOK, PendingOK
<1>6. q \in GoodPixmap /\ q.scanout
  BY <1>2, <1>3, <1>4, <1>5 DEF GoodPixmap, CorePixmap
<1> QED
  BY <1>6 DEF q

(* A pixmap that is not scanned out gets its framebuffer last: it is left  *)
(* without one whatever fails on the way.                                  *)
LEMMA ScanoutRefGood ==
  ASSUME NEW p \in GoodPixmap, ~p.scanout, NEW o \in ScanoutRef(p)
  PROVE  o.ok \in BOOLEAN /\ o.p \in GoodPixmap /\ (o.p.scanout <=> o.ok)
<1>1. PICK a \in (IF OnlyHwPresents THEN HwAccelValidate(p, Tiles) ELSE CreateGmr(p)) :
        o \in IF a.ok THEN {Failed(RemoveDamage(a.p)),
                            Done([a.p EXCEPT !.scanout = TRUE, !.fb_bits = Blank])}
                      ELSE {a}
  BY DEF ScanoutRef
<1>2. /\ a.ok \in BOOLEAN /\ Migrates(p, a.p)
      /\ a.ok => a.p.hw \/ a.p.gmr
      /\ a.ok => OnlyHwPresents \/ a.p.gmr
  <2>0. p \in CorePixmap
    BY DEF GoodPixmap
  <2>1. CASE OnlyHwPresents
    BY <1>1, <2>0, <2>1, HwAccelValidateMigrates
  <2>2. CASE ~OnlyHwPresents
    BY <1>1, <2>0, <2>2, CreateGmrMigrates
  <2> QED
    BY <2>1, <2>2
<1>3. a.p \in GoodPixmap /\ ~a.p.scanout
  BY <1>2, MigratesGood DEF Migrates
<1>4. CASE ~a.ok
  BY <1>1, <1>2, <1>3, <1>4
<1>5. CASE o = Failed(RemoveDamage(a.p))
  <2>1. Migrates(a.p, RemoveDamage(a.p))
    BY <1>3, RemoveDamageMigrates DEF GoodPixmap
  <2>2. RemoveDamage(a.p) \in GoodPixmap /\ ~RemoveDamage(a.p).scanout
    BY <1>3, <2>1, MigratesGood DEF Migrates
  <2> QED
    BY <1>5, <2>2, FailedIs
<1>6. CASE a.ok /\ o = Done([a.p EXCEPT !.scanout = TRUE, !.fb_bits = Blank])
  <2> DEFINE q == [a.p EXCEPT !.scanout = TRUE, !.fb_bits = Blank]
  <2>1. /\ a.p \in PixmapRecord /\ StorageOK(a.p) /\ DirtyOK(a.p)
        /\ PendingOK(a.p)
    BY <1>3 DEF GoodPixmap, CorePixmap
  <2>2. /\ q \in PixmapRecord
        /\ q.malloc = a.p.malloc /\ q.gmr = a.p.gmr /\ q.hw = a.p.hw
        /\ q.backing = a.p.backing /\ q.damage = a.p.damage /\ q.scanout = TRUE
        /\ q.dirty_shadow = a.p.dirty_shadow /\ q.dirty_hw = a.p.dirty_hw
        /\ q.dirty_present = a.p.dirty_present
        /\ q.pending_update = a.p.pending_update
        /\ q.pending_present = a.p.pending_present
    BY <2>1, BlankType DEF PixmapRecord
  <2> HIDE DEF q
  <2>3. StorageOK(q)
    BY <1>2, <1>6, <2>1, <2>2 DEF StorageOK, PixmapRecord
  <2>4. DirtyOK(q) /\ PendingOK(q)
    BY <1>3, <2>1, <2>2 DEF DirtyOK, PendingOK
  <2>5. q \in GoodPixmap /\ q.scanout = TRUE
    BY <2>2, <2>3, <2>4 DEF GoodPixmap, CorePixmap
  <2>6. o.ok = TRUE /\ o.p = q
    BY <1>6, DoneIs DEF q
  <2> QED
    BY <2>5, <2>6
<1> QED
  BY <1>1, <1>2, <1>4, <1>5, <1>6

(* Giving up the framebuffer leaves nothing presented and nothing pending. *)
LEMMA ScanoutUnrefGood ==
  ASSUME NEW p \in GoodPixmap, NEW r \in ScanoutUnref(p)
  PROVE  r \in GoodPixmap /\ ~r.scanout
<1>1. PICK a \in PresentReadback(p, Tiles, FALSE) :
        r = RemoveDamage([a.p EXCEPT !.scanout = FALSE, !.dirty_present = {},
                            !.pending_update = {}, !.pending_present = {},
                            !.unshown = {}, !.fb_bits = Blank])
  BY DEF ScanoutUnref, After
<1> DEFINE q == [a.p EXCEPT !.scanout = FALSE, !.dirty_present = {},
                            !.pending_update = {}, !.pending_present = {},
                            !.unshown = {}, !.fb_bits = Blank]
<1>2. a.p \in PixmapRecord /\ StorageOK(a.p) /\ DirtyOK(a.p)
  <2>1. p \in CorePixmap
    BY DEF GoodPixmap
  <2>2. Migrates(p, a.p)
    BY <2>1, PresentReadbackMigrates
  <2> QED
    BY <2>2, MigratesInOrder DEF CorePixmap
<1>3. /\ q \in PixmapRecord
      /\ q.malloc = a.p.malloc /\ q.gmr = a.p.gmr /\ q.hw = a.p.hw
      /\ q.backing = a.p.backing /\ q.damage = a.p.damage /\ q.scanout = FALSE
      /\ q.dirty_shadow = a.p.dirty_shadow /\ q.dirty_hw = a.p.dirty_hw
      /\ q.dirty_present = {}
      /\ q.pending_update = {} /\ q.pending_present = {}
  BY <1>2, BlankType DEF PixmapRecord
<1> HIDE DEF q
<1>4. /\ r \in PixmapRecord
      /\ r.malloc = q.malloc /\ r.gmr = q.gmr /\ r.hw = q.hw
      /\ r.backing = q.backing /\ r.scanout = FALSE
      /\ r.damage = (q.damage /\ (q.hw \/ q.gmr \/ q.malloc))
      /\ r.dirty_shadow = q.dirty_shadow /\ r.dirty_hw = q.dirty_hw
      /\ r.dirty_present = {}
      /\ r.pending_update = {} /\ r.pending_present = {}
  <2>1. r = RemoveDamage(q)
    BY <1>1 DEF q
  <2>2. CASE q.hw \/ q.gmr \/ q.malloc
    <3>1. r = q
      BY <2>1, <2>2 DEF RemoveDamage
    <3> QED
      BY <1>3, <2>2, <3>1 DEF PixmapRecord
  <2>3. CASE ~(q.hw \/ q.gmr \/ q.malloc)
    <3>1. r = [q EXCEPT !.damage = FALSE]
      BY <2>1, <2>3 DEF RemoveDamage
    <3> QED
      BY <1>3, <2>3, <3>1 DEF PixmapRecord
  <2> QED
    BY <2>2, <2>3
<1>5. StorageOK(r)
  BY <1>2, <1>3, <1>4 DEF StorageOK, PixmapRecord
<1>6. DirtyOK(r) /\ PendingOK(r)
  BY <1>2, <1>3, <1>4 DEF DirtyOK, PendingOK
<1> QED
  BY <1>4, <1>5, <1>6 DEF GoodPixmap, CorePixmap

(* A mode set schedules each tile once: from software where the surface is *)
(* stale, from the surface elsewhere, and not at all where presented.      *)
LEMMA ScanoutRefreshGood ==
  ASSUME NEW p \in GoodPixmap, p.scanout
  PROVE  ScanoutRefresh(p) \in GoodPixmap /\ ScanoutRefresh(p).scanout
<1> DEFINE q == ScanoutRefresh(p)
<1>1. p \in PixmapRecord /\ StorageOK(p) /\ DirtyOK(p)
  BY DEF GoodPixmap, CorePixmap
<1>2. /\ q \in PixmapRecord
      /\ q.malloc = p.malloc /\ q.gmr = p.gmr /\ q.hw = p.hw
      /\ q.backing = p.backing /\ q.damage = p.damage /\ q.scanout = p.scanout
      /\ q.dirty_shadow = p.dirty_shadow /\ q.dirty_hw = p.dirty_hw
      /\ q.dirty_present = p.dirty_present
      /\ q.pending_update = p.dirty_shadow
      /\ q.pending_present = Tiles \ (p.dirty_present \cup p.dirty_shadow)
  BY <1>1 DEF ScanoutRefresh, PixmapRecord
<1> HIDE DEF q
<1>3. StorageOK(q) /\ DirtyOK(q) /\ PendingOK(q)
  BY <1>1, <1>2 DEF StorageOK, DirtyOK, PendingOK
<1>4. q \in GoodPixmap /\ q.scanout
  BY <1>2, <1>3 DEF GoodPixmap, CorePixmap
<1> QED
  BY <1>4 DEF q

----------------------------------------------------------------------------
(* CPU access and the end of an operation.                                 *)

(* Preparing CPU access only migrates contents.                            *)
LEMMA PrepareAccessMigrates ==
  ASSUME NEW p \in CorePixmap, NEW R, NEW o \in PrepareAccess(p, R)
  PROVE  o.ok \in BOOLEAN /\ Migrates(p, o.p)
<1>1. PICK a \in (IF R = {} THEN {Done(p)} ELSE DownloadFromHw(p, R)) :
        o \in IF a.ok THEN { c \in CreateSw(a.p) : c.ok } ELSE {a}
  BY DEF PrepareAccess
<1>2. a.ok \in BOOLEAN /\ Migrates(p, a.p)
  <2>1. CASE R = {}
    BY <1>1, <2>1, DoneIs, MigratesReflexive
  <2>2. CASE R # {}
    BY <1>1, <2>2, DownloadFromHwMigrates
  <2> QED
    BY <2>1, <2>2
<1>3. a.p \in CorePixmap
  BY <1>2, MigratesInOrder
<1>4. CASE ~a.ok
  BY <1>1, <1>2, <1>4
<1>5. CASE a.ok
  <2>1. o.ok \in BOOLEAN /\ Migrates(a.p, o.p)
    BY <1>1, <1>3, <1>5, CreateSwMigrates
  <2> QED
    BY <1>2, <2>1, MigratesTransitive
<1> QED
  BY <1>2, <1>4, <1>5

(* Whether a pixmap is on the list of front buffers to flush is no part of *)
(* its being in order.                                                     *)
LEMMA SyncGood ==
  ASSUME NEW p \in GoodPixmap, NEW b \in BOOLEAN
  PROVE  LET q == [p EXCEPT !.sync = b]
         IN q \in GoodPixmap /\ (q.scanout <=> p.scanout)
<1> DEFINE q == [p EXCEPT !.sync = b]
<1>1. /\ q \in PixmapRecord
      /\ q.malloc = p.malloc /\ q.gmr = p.gmr /\ q.hw = p.hw
      /\ q.backing = p.backing /\ q.damage = p.damage /\ q.scanout = p.scanout
      /\ q.dirty_shadow = p.dirty_shadow /\ q.dirty_hw = p.dirty_hw
      /\ q.dirty_present = p.dirty_present
      /\ q.pending_update = p.pending_update
      /\ q.pending_present = p.pending_present
  BY DEF GoodPixmap, CorePixmap, PixmapRecord
<1> HIDE DEF q
<1>2. StorageOK(q) /\ DirtyOK(q) /\ PendingOK(q)
  BY <1>1 DEF GoodPixmap, CorePixmap, StorageOK, DirtyOK, PendingOK
<1>3. q \in GoodPixmap /\ (q.scanout <=> p.scanout)
  BY <1>1, <1>2 DEF GoodPixmap, CorePixmap
<1> QED
  BY <1>3 DEF q

(* The end of an operation migrates contents and may queue the pixmap.     *)
LEMMA OperationCompleteGood ==
  ASSUME NEW p \in GoodPixmap, NEW vt, NEW r \in OperationComplete(p, vt)
  PROVE  r \in GoodPixmap /\ (r.scanout <=> p.scanout)
<1>1. CASE r = p
  BY <1>1
<1>2. CASE r # p
  <2>1. PICK o \in (IF vt THEN FlushShadow(p) ELSE {Failed(p)}) :
          r = IF o.ok THEN o.p ELSE [o.p EXCEPT !.sync = TRUE]
    BY <1>2 DEF OperationComplete
  <2>2. Migrates(p, o.p)
    <3>1. p \in CorePixmap
      BY DEF GoodPixmap
    <3>2. CASE vt
      BY <2>1, <3>1, <3>2, FlushShadowMigrates
    <3>3. CASE ~vt
      BY <2>1, <3>1, <3>3, FailedIs, MigratesReflexive
    <3> QED
      BY <3>2, <3>3
  <2>3. o.p \in GoodPixmap /\ (o.p.scanout <=> p.scanout)
    BY <2>2, MigratesGood DEF Migrates
  <2>4. CASE r = o.p
    BY <2>3, <2>4
  <2>5. CASE r = [o.p EXCEPT !.sync = TRUE]
    BY <2>3, <2>5, SyncGood
  <2> QED
    BY <2>1, <2>4, <2>5
<1> QED
  BY <1>1, <1>2

----------------------------------------------------------------------------
(* Contents.  From here on nothing happens that the code does not survive  *)
(* without losing contents: no kernel call or present fails with nobody    *)
(* told, no format changes, no presented framebuffer is removed.           *)
NoHazards == Hazards = {}

(* What the driver finds at a tile.                                        *)
At(v, t) ==
  IF t \notin v.dirty_hw THEN v.sw_bits[t]
  ELSE IF t \in v.dirty_present THEN v.fb_bits[t]
  ELSE v.hw_bits[t]

(* What the regions promise of a tile: contents that software lacks are in *)
(* the surface or on the framebuffer; a surface yet to be made is stale    *)
(* all over; storage yet to be made has nothing to say; and what was       *)
(* presented is on the framebuffer.  Of a tile whose pixels are kept (K),  *)
(* they promise too that it is the same in software and surface where no   *)
(* region marks it.                                                        *)
TileSound(K, v, t) ==
  /\ ~v.hw => v.hw_bits[t] = Junk
  /\ t \in v.dirty_hw => v.hw \/ t \in v.dirty_present
  /\ v.damage /\ ~v.hw => t \in v.dirty_shadow \/ t \in v.dirty_present
  /\ ~HasStorage(v) => v.sw_bits[t] = Junk
  /\ t \in v.dirty_present => v.fb_bits[t] = At(v, t)
  /\ t \in K /\ ~HasStorage(v) /\ t \notin v.dirty_hw => v.hw_bits[t] = Junk
  /\ t \in K /\ v.hw /\ t \notin v.dirty_hw
       /\ t \notin v.dirty_shadow /\ t \notin v.dirty_present
       => v.hw_bits[t] = v.sw_bits[t]

(* Every tile is sound, and a pixmap GL clients share has a surface.       *)
Sound(K, v) ==
  /\ \A t \in Tiles : TileSound(K, v, t)
  /\ v.fronts > 0 \/ v.sync => v.hw

(* What waits to be presented is current in a surface that exists.         *)
PendingSound(v) == \A t \in v.pending_present : v.hw /\ t \notin v.dirty_shadow

(* The framebuffer, if there is one, shows of the kept tiles all but what  *)
(* waits for it and what a flush failed to bring.                          *)
Fresh(K, v) ==
  v.scanout =>
    \A t \in Tiles : t \in K =>
      \/ t \in v.pending_update \/ t \in v.pending_present \/ t \in v.unshown
      \/ v.fb_bits[t] = At(v, t)

(* GL clients that share the surface find it current, or the next flush    *)
(* will make it so.                                                        *)
Flushed(v) == v.fronts > 0 => v.sync \/ v.dirty_shadow = {}

(* A migration that keeps contents where the regions say they are.         *)
Moves(K, p, q) ==
  /\ Migrates(p, q)
  /\ Sound(K, q)
  /\ \A t \in Tiles : At(q, t) = At(p, t)
  /\ q.fb_bits = p.fb_bits
  /\ q.sync = p.sync /\ q.unshown = p.unshown
  /\ p.hw => q.hw /\ q.dirty_shadow \subseteq p.dirty_shadow

(* Doing nothing keeps contents ...                                        *)
LEMMA MovesReflexive ==
  ASSUME NEW K, NEW p \in CorePixmap, Sound(K, p)
  PROVE  Moves(K, p, p)
BY MigratesReflexive DEF Moves

(* ... a move ends in order ...                                            *)
LEMMA MovesSound ==
  ASSUME NEW K, NEW p, NEW q, Moves(K, p, q)
  PROVE  q \in CorePixmap /\ Sound(K, q)
BY MigratesInOrder DEF Moves

(* ... and one after another keeps them.                                   *)
LEMMA MovesTransitive ==
  ASSUME NEW K, NEW p, NEW q, NEW r, Moves(K, p, q), Moves(K, q, r)
  PROVE  Moves(K, p, r)
<1>1. Migrates(p, r)
  BY MigratesTransitive DEF Moves
<1> QED
  BY <1>1 DEF Moves

(* A move tile by tile.                                                    *)
LEMMA MovesByTile ==
  ASSUME NEW K, NEW p, NEW q, Sound(K, p), Migrates(p, q),
         q.fb_bits = p.fb_bits, q.sync = p.sync /\ q.unshown = p.unshown,
         p.hw => q.hw /\ q.dirty_shadow \subseteq p.dirty_shadow,
         \A t \in Tiles : TileSound(K, q, t) /\ At(q, t) = At(p, t)
  PROVE  Moves(K, p, q)
<1>1. q.fronts > 0 \/ q.sync => q.hw
  BY DEF Sound, Migrates
<1> QED
  BY <1>1 DEF Moves, Sound

(* What waits for the framebuffer, what it shows and what GL clients find  *)
(* are as good after a move.                                               *)
LEMMA MovesKeeps ==
  ASSUME NEW K, NEW p, NEW q, Sound(K, p), Moves(K, p, q)
  PROVE  /\ PendingSound(p) => PendingSound(q)
         /\ Fresh(K, p) => Fresh(K, q)
         /\ Flushed(p) => Flushed(q)
<1>1. PendingSound(p) => PendingSound(q)
  BY DEF PendingSound, Moves, Migrates
<1>2. Fresh(K, p) => Fresh(K, q)
  BY DEF Fresh, Moves, Migrates
<1>3. Flushed(p) => Flushed(q)
  BY DEF Flushed, Moves, Migrates, Sound
<1> QED
  BY <1>1, <1>2, <1>3

(* A pixmap without storage holds nothing but what was never drawn.        *)
LEMMA NothingStored ==
  ASSUME NEW K, NEW p \in CorePixmap, Sound(K, p), ~p.damage
  PROVE  /\ ~p.hw /\ ~p.scanout /\ ~HasStorage(p)
         /\ p.dirty_present = {} /\ p.dirty_hw = {}
<1>1. ~p.hw /\ ~p.scanout /\ ~HasStorage(p)
  BY DEF CorePixmap, PixmapRecord, StorageOK, HasStorage
<1>2. p.dirty_present = {}
  BY <1>1 DEF CorePixmap, DirtyOK
<1>3. p.dirty_hw \subseteq Tiles /\ \A t \in Tiles : t \notin p.dirty_hw
  BY <1>1, <1>2 DEF CorePixmap, PixmapRecord, Sound, TileSound
<1> QED
  BY <1>1, <1>2, <1>3

(* A GMR takes over what was malloced, or is as fresh as nothing was.      *)
LEMMA CreateGmrMoves ==
  ASSUME NEW K, NEW p \in CorePixmap, Sound(K, p), NEW o \in CreateGmr(p)
  PROVE  /\ Moves(K, p, o.p) /\ o.p.hw_bits = p.hw_bits
         /\ p.damage => /\ o.p.dirty_hw = p.dirty_hw
                        /\ o.p.dirty_present = p.dirty_present
<1>0. Migrates(p, o.p) /\ (o.p.hw <=> p.hw) /\ (o.ok => o.p.gmr)
  BY CreateGmrMigrates
<1>1. CASE p.gmr \/ o = Failed(p)
  <2>1. o.p = p
    BY <1>1, DoneIs, FailedIs DEF CreateGmr
  <2> QED
    BY <2>1, MovesReflexive
<1>2. CASE ~p.gmr /\ o # Failed(p)
  <2>1. PICK a \in (IF p.malloc THEN {Done(p)} ELSE AddDamage(p)) :
          o = IF a.ok
              THEN Done(FreeStorage(PreferGmrBacking([a.p EXCEPT !.gmr = TRUE])))
              ELSE a
    BY <1>2 DEF CreateGmr
  <2>2. a.ok /\ Damaged(p, a.p)
    <3>1. CASE p.malloc
      <4>1. a.ok = TRUE /\ a.p = p
        BY <2>1, <3>1 DEF Done
      <4>2. p.damage = TRUE
        BY <3>1 DEF CorePixmap, PixmapRecord, StorageOK
      <4> QED
        BY <4>1, <4>2 DEF Damaged, CorePixmap, PixmapRecord
    <3>2. CASE ~p.malloc
      BY <1>2, <2>1, <3>2, AddDamageDamages
    <3> QED
      BY <3>1, <3>2
  <2> DEFINE b == PreferGmrBacking([a.p EXCEPT !.gmr = TRUE])
             q == FreeStorage(b)
  <2>3. o.ok = TRUE /\ o.p = q
    BY <2>1, <2>2 DEF Done
  <2>4. /\ b \in PixmapRecord
        /\ b.gmr = TRUE /\ b.backing = (a.p.backing \cup {"GMR"}) \ {"MALLOC"}
        /\ b.malloc = a.p.malloc /\ b.hw = a.p.hw /\ b.damage = TRUE
        /\ b.dirty_shadow = a.p.dirty_shadow /\ b.dirty_hw = a.p.dirty_hw
        /\ b.dirty_present = a.p.dirty_present /\ b.sync = a.p.sync
        /\ b.unshown = a.p.unshown
        /\ b.sw_bits = a.p.sw_bits /\ b.hw_bits = a.p.hw_bits
        /\ b.fb_bits = a.p.fb_bits
    BY <2>2 DEF Damaged, PreferGmrBacking, PixmapRecord, Backings
  <2>5. "GMR" \in b.backing /\ (b.hw => "SURFACE" \in b.backing)
    BY <2>2, <2>4 DEF Damaged, CorePixmap, PixmapRecord, StorageOK
  <2>6. /\ q.damage = TRUE /\ q.hw = b.hw /\ q.gmr
        /\ q.dirty_shadow = b.dirty_shadow /\ q.dirty_hw = b.dirty_hw
        /\ q.dirty_present = b.dirty_present /\ q.sync = b.sync
        /\ q.unshown = b.unshown
    <3> HIDE DEF b
    <3> QED
      BY <2>4, <2>5, FreeStorageKeeps DEF PixmapRecord
  <2>7. /\ q.sw_bits = b.sw_bits /\ q.fb_bits = b.fb_bits
        /\ q.hw_bits = IF b.hw THEN b.hw_bits ELSE Blank
    <3> HIDE DEF b
    <3> QED
      BY <2>4, <2>5 DEF FreeStorage, PixmapRecord
  <2> HIDE DEF b, q
  <2>8. p \in PixmapRecord /\ DirtyOK(p)
    BY DEF CorePixmap
  <2>9. ~p.hw => p.hw_bits = Blank
    BY <2>8 DEF Sound, TileSound, PixmapRecord, Image, Blank
  <2>10. /\ q.sw_bits = p.sw_bits /\ q.hw_bits = p.hw_bits /\ q.fb_bits = p.fb_bits
         /\ q.sync = p.sync
         /\ q.unshown = p.unshown /\ (q.hw <=> p.hw) /\ HasStorage(q)
         /\ q.dirty_present = p.dirty_present
    BY <2>2, <2>4, <2>6, <2>7, <2>9 DEF Damaged, HasStorage
  <2>11. CASE p.damage
    <3>1. q.dirty_shadow = p.dirty_shadow /\ q.dirty_hw = p.dirty_hw
      BY <2>2, <2>4, <2>6, <2>11 DEF Damaged
    <3>2. \A t \in Tiles : TileSound(K, q, t) /\ At(q, t) = At(p, t)
      BY <2>10, <2>11, <3>1 DEF Sound, TileSound, At
    <3> QED
      BY <1>0, <2>3, <2>10, <3>1, <3>2, MovesByTile
  <2>12. CASE ~p.damage
    <3>1. q.dirty_shadow = Tiles /\ q.dirty_hw = {}
      BY <2>2, <2>4, <2>6, <2>12 DEF Damaged
    <3>2. /\ ~p.hw /\ ~HasStorage(p)
          /\ p.dirty_present = {} /\ p.dirty_hw = {}
      BY <2>12, NothingStored
    <3>3. \A t \in Tiles : TileSound(K, q, t) /\ At(q, t) = At(p, t)
      BY <2>10, <3>1, <3>2 DEF Sound, TileSound, At
    <3> QED
      BY <1>0, <2>3, <2>10, <3>2, <3>3, <2>12, MovesByTile
  <2> QED
    BY <2>2, <2>4, <2>6, <2>11, <2>12, <2>10, <2>3 DEF Damaged
<1> QED
  BY <1>1, <1>2

(* Malloced storage is made where there was none.                          *)
LEMMA CreateMallocMoves ==
  ASSUME NEW K, NEW p \in CorePixmap, Sound(K, p), "MALLOC" \in p.backing,
         ~p.malloc,
         NEW o \in CreateMalloc(p)
  PROVE  /\ Moves(K, p, o.p) /\ o.p.hw_bits = p.hw_bits /\ (o.p.hw <=> p.hw)
         /\ o.ok => HasStorage(o.p)
<1>0. Migrates(p, o.p) /\ (o.p.hw <=> p.hw)
  BY CreateMallocMigrates
<1>1. CASE o = Failed(p)
  <2>1. o.p = p /\ ~o.ok
    BY <1>1, FailedIs
  <2> QED
    BY <2>1, MovesReflexive
<1>2. CASE o # Failed(p)
  <2>1. PICK a \in AddDamage(p) :
          o = IF a.ok THEN Done([a.p EXCEPT !.malloc = TRUE]) ELSE a
    BY <1>2 DEF CreateMalloc
  <2>2. a.ok /\ Damaged(p, a.p)
    BY <1>2, <2>1, AddDamageDamages
  <2> DEFINE q == [a.p EXCEPT !.malloc = TRUE]
  <2>3. o.p = q
    BY <2>1, <2>2 DEF Done
  <2>4. /\ q.malloc = TRUE /\ q.damage = TRUE
        /\ q.dirty_shadow = a.p.dirty_shadow /\ q.dirty_hw = a.p.dirty_hw
        /\ q.dirty_present = p.dirty_present /\ q.sync = p.sync
        /\ q.unshown = p.unshown
        /\ q.sw_bits = p.sw_bits /\ q.hw_bits = p.hw_bits /\ q.fb_bits = p.fb_bits
    BY <2>2 DEF Damaged, PixmapRecord
  <2>5. HasStorage(q)
    BY <2>4 DEF HasStorage
  <2> HIDE DEF q
  <2>6. q.hw <=> p.hw
    BY <1>0, <2>3
  <2>7. CASE p.damage
    <3>1. q.dirty_shadow = p.dirty_shadow /\ q.dirty_hw = p.dirty_hw
      BY <2>2, <2>4, <2>7 DEF Damaged
    <3>2. \A t \in Tiles : TileSound(K, q, t) /\ At(q, t) = At(p, t)
      BY <2>4, <2>5, <2>6, <2>7, <3>1 DEF Sound, TileSound, At
    <3> QED
      BY <1>0, <2>3, <2>4, <2>5, <2>6, <3>1, <3>2, MovesByTile
  <2>8. CASE ~p.damage
    <3>1. q.dirty_shadow = Tiles /\ q.dirty_hw = {}
      BY <2>2, <2>4, <2>8 DEF Damaged
    <3>2. /\ ~p.hw /\ ~HasStorage(p)
          /\ p.dirty_present = {} /\ p.dirty_hw = {}
      BY <2>8, NothingStored
    <3>3. \A t \in Tiles : TileSound(K, q, t) /\ At(q, t) = At(p, t)
      BY <2>4, <2>5, <2>6, <3>1, <3>2 DEF Sound, TileSound, At
    <3> QED
      BY <1>0, <2>3, <2>4, <2>5, <2>6, <3>2, <3>3, MovesByTile
  <2> QED
    BY <2>7, <2>8
<1> QED
  BY <1>1, <1>2

(* Software storage is there after create_sw, and no contents moved.       *)
LEMMA CreateSwMoves ==
  ASSUME NEW K, NEW p \in CorePixmap, Sound(K, p), NEW o \in CreateSw(p)
  PROVE  /\ Moves(K, p, o.p) /\ o.p.hw_bits = p.hw_bits /\ (o.p.hw <=> p.hw)
         /\ o.ok => HasStorage(o.p)
<1>1. CASE p.backing \cap {"MALLOC", "GMR"} = {}
  BY <1>1 DEF CorePixmap, StorageOK
<1>2. CASE "MALLOC" \in p.backing /\ ~p.malloc
  BY <1>2, CreateMallocMoves DEF CreateSw
<1>3. CASE /\ p.backing \cap {"MALLOC", "GMR"} # {}
           /\ ~("MALLOC" \in p.backing /\ ~p.malloc)
           /\ "GMR" \in p.backing /\ (p.malloc \/ "MALLOC" \notin p.backing)
  BY <1>3, CreateGmrMoves, CreateGmrMigrates DEF CreateSw, HasStorage
<1>4. CASE /\ p.backing \cap {"MALLOC", "GMR"} # {}
           /\ ~("MALLOC" \in p.backing /\ ~p.malloc)
           /\ ~("GMR" \in p.backing /\ (p.malloc \/ "MALLOC" \notin p.backing))
  <2>1. o.p = p
    BY <1>4, DoneIs DEF CreateSw
  <2>2. p.malloc \/ p.gmr
    BY <1>4 DEF CorePixmap, StorageOK
  <2> QED
    BY <2>1, <2>2, MovesReflexive DEF HasStorage
<1> QED
  BY <1>1, <1>2, <1>3, <1>4

(* Preferring a GMR moves the contents there, or changes a flag.           *)
LEMMA PreferGmrMoves ==
  ASSUME NEW K, NEW p \in CorePixmap, Sound(K, p), NEW q \in PreferGmr(p)
  PROVE  Moves(K, p, q)
<1>1. CASE p.malloc
  <2>1. PICK o \in CreateGmr(p) : q = o.p
    BY <1>1 DEF PreferGmr, After
  <2> QED
    BY <2>1, CreateGmrMoves
<1>2. CASE ~p.malloc /\ "MALLOC" \in p.backing
  <2>1. q = [p EXCEPT !.backing = (@ \cup {"GMR"}) \ {"MALLOC"}]
    BY <1>2 DEF PreferGmr, PreferGmrBacking
  <2>2. /\ q.malloc = p.malloc /\ q.gmr = p.gmr /\ q.hw = p.hw
        /\ q.damage = p.damage /\ q.sync = p.sync /\ q.unshown = p.unshown
        /\ q.dirty_shadow = p.dirty_shadow /\ q.dirty_hw = p.dirty_hw
        /\ q.dirty_present = p.dirty_present
        /\ q.sw_bits = p.sw_bits /\ q.hw_bits = p.hw_bits /\ q.fb_bits = p.fb_bits
    BY <2>1 DEF CorePixmap, PixmapRecord
  <2>3. \A t \in Tiles : TileSound(K, q, t) /\ At(q, t) = At(p, t)
    BY <2>2 DEF Sound, TileSound, At, HasStorage
  <2>4. Migrates(p, q)
    BY PreferGmrMigrates
  <2> QED
    BY <2>2, <2>3, <2>4, MovesByTile
<1>3. CASE ~p.malloc /\ "MALLOC" \notin p.backing
  BY <1>3, MovesReflexive DEF PreferGmr
<1> QED
  BY <1>1, <1>2, <1>3

(* A surface is made stale all over, or fresh where nothing was drawn.     *)
LEMMA CreateHwMoves ==
  ASSUME NEW K, NEW p \in CorePixmap, Sound(K, p), NEW o \in CreateHw(p)
  PROVE  Moves(K, p, o.p)
<1>0. Migrates(p, o.p) /\ (o.ok => o.p.hw)
  BY CreateHwMigrates
<1>1. CASE p.hw \/ o = Failed(p)
  <2>1. o.p = p
    BY <1>1, DoneIs, FailedIs DEF CreateHw
  <2> QED
    BY <2>1, MovesReflexive
<1>2. CASE ~p.hw /\ o # Failed(p)
  <2>1. PICK a \in AddDamage(p) :
          o \in IF a.ok
                THEN { Done(q) : q \in PreferGmr(FreeStorage(
                       [a.p EXCEPT !.hw = TRUE, !.backing = @ \cup {"SURFACE"}])) }
                ELSE {a}
    BY <1>2 DEF CreateHw
  <2>2. a.ok /\ Damaged(p, a.p)
    BY <1>2, <2>1, AddDamageDamages
  <2> DEFINE b == [a.p EXCEPT !.hw = TRUE, !.backing = @ \cup {"SURFACE"}]
             c == FreeStorage(b)
  <2>3. PICK q \in PreferGmr(c) : o.p = q
    BY <2>1, <2>2, DoneIs
  <2>4. /\ b \in PixmapRecord
        /\ b.hw = TRUE /\ b.backing = p.backing \cup {"SURFACE"}
        /\ b.malloc = p.malloc /\ b.gmr = p.gmr /\ b.damage = TRUE
        /\ b.dirty_shadow = a.p.dirty_shadow /\ b.dirty_hw = a.p.dirty_hw
        /\ b.dirty_present = p.dirty_present
        /\ b.pending_update = p.pending_update
        /\ b.pending_present = p.pending_present
        /\ b.scanout = p.scanout /\ b.fronts = p.fronts /\ b.sync = p.sync
        /\ b.unshown = p.unshown
        /\ b.sw_bits = p.sw_bits /\ b.hw_bits = p.hw_bits /\ b.fb_bits = p.fb_bits
    BY <2>2 DEF Damaged, PixmapRecord, Backings
  <2>5. StorageOK(p) /\ DirtyOK(p) /\ p \in PixmapRecord
    BY DEF CorePixmap
  <2> HIDE DEF b
  <2>6. /\ p.malloc => "MALLOC" \in b.backing
        /\ p.gmr => "GMR" \in b.backing
        /\ "SURFACE" \in b.backing
    BY <2>4, <2>5 DEF StorageOK, PixmapRecord
  <2>7. /\ c \in PixmapRecord
        /\ c.hw = TRUE /\ c.backing = b.backing
        /\ c.malloc = p.malloc /\ c.gmr = p.gmr /\ c.damage = TRUE
        /\ c.dirty_shadow = b.dirty_shadow /\ c.dirty_hw = b.dirty_hw
        /\ c.dirty_present = p.dirty_present
        /\ c.pending_update = p.pending_update
        /\ c.pending_present = p.pending_present
        /\ c.scanout = p.scanout /\ c.fronts = p.fronts /\ c.sync = p.sync
        /\ c.unshown = p.unshown
    BY <2>4, <2>5, <2>6, FreeStorageKeeps DEF PixmapRecord
  <2>8. /\ c.hw_bits = p.hw_bits /\ c.fb_bits = p.fb_bits
        /\ c.sw_bits = IF HasStorage(p) THEN p.sw_bits ELSE Blank
    BY <2>4, <2>5, <2>6 DEF FreeStorage, PixmapRecord, HasStorage
  <2>9. ~HasStorage(p) => p.sw_bits = Blank
    BY <2>5 DEF Sound, TileSound, PixmapRecord, Image, Blank
  <2>10. (HasStorage(c) <=> HasStorage(p)) /\ c.sw_bits = p.sw_bits
    BY <2>7, <2>8, <2>9 DEF HasStorage
  <2> HIDE DEF c
  <2>11. Moves(K, p, c) /\ c \in CorePixmap
    <3>1. c \in CorePixmap
      <4>1. StorageOK(c)
        BY <2>4, <2>5, <2>7 DEF StorageOK, PixmapRecord
      <4>2. DirtyOK(c)
        BY <2>2, <2>4, <2>5, <2>7 DEF Damaged, DirtyOK, PixmapRecord
      <4> QED
        BY <2>7, <4>1, <4>2 DEF CorePixmap
    <3>2. Migrates(p, c)
      BY <2>2, <2>4, <2>5, <2>7, <3>1 DEF Damaged, Migrates, PixmapRecord
    <3>3. CASE p.damage
      <4>1. c.dirty_shadow = p.dirty_shadow /\ c.dirty_hw = p.dirty_hw
        BY <2>2, <2>4, <2>7, <3>3 DEF Damaged
      <4>2. \A t \in Tiles : TileSound(K, c, t) /\ At(c, t) = At(p, t)
        BY <1>2, <2>7, <2>8, <2>10, <3>3, <4>1 DEF Sound, TileSound, At
      <4> QED
        BY <1>2, <2>7, <2>8, <3>1, <3>2, <4>2, MovesByTile
    <3>4. CASE ~p.damage
      <4>1. c.dirty_shadow = Tiles /\ c.dirty_hw = {}
        BY <2>2, <2>4, <2>7, <3>4 DEF Damaged
      <4>2. p.dirty_present = {} /\ p.dirty_hw = {}
        BY <3>4, NothingStored
      <4>3. \A t \in Tiles : TileSound(K, c, t) /\ At(c, t) = At(p, t)
        BY <1>2, <2>7, <2>8, <2>10, <4>1, <4>2 DEF Sound, TileSound, At
      <4> QED
        BY <1>2, <2>7, <2>8, <3>1, <3>2, <4>3, MovesByTile
    <3> QED
      BY <3>3, <3>4
  <2>12. Moves(K, c, q)
    BY <2>3, <2>11, MovesSound, PreferGmrMoves
  <2> QED
    BY <2>3, <2>11, <2>12, MovesTransitive
<1> QED
  BY <1>1, <1>2

----------------------------------------------------------------------------
(* A readback brings what only the framebuffer has to software.            *)
LEMMA PresentReadbackMoves ==
  ASSUME NEW K, NoHazards, NEW p \in CorePixmap, Sound(K, p), NEW R,
         NEW fb \in BOOLEAN,
         fb \/ p.dirty_present = {},
         NEW o \in PresentReadback(p, R, fb)
  PROVE  /\ Moves(K, p, o.p) /\ (o.p.hw <=> p.hw) /\ o.p.hw_bits = p.hw_bits
         /\ o.ok => o.p.dirty_hw \cap o.p.dirty_present \cap R = {}
<1> DEFINE lost == p.dirty_hw \cap p.dirty_present \cap R
<1>0. Migrates(p, o.p) /\ (o.p.hw <=> p.hw)
  BY PresentReadbackMigrates
<1>1. CASE ~p.damage \/ lost = {}
  <2>1. o.p = p
    BY <1>1, DoneIs DEF PresentReadback
  <2>2. p.dirty_hw \cap p.dirty_present \cap R = {}
    BY <1>1, NothingStored
  <2> QED
    BY <2>1, <2>2, MovesReflexive
<1>2. CASE p.damage /\ lost # {}
  <2>1. PICK g \in CreateGmr(p) :
          o \in IF g.ok
                THEN { IF c.ok THEN Done([c.p EXCEPT !.dirty_hw = @ \ lost]) ELSE c :
                       c \in ReadbackCall(g.p, lost, fb) }
                ELSE {g}
    BY <1>2 DEF PresentReadback
  <2>2. /\ Moves(K, p, g.p) /\ (g.p.hw <=> p.hw) /\ g.p.hw_bits = p.hw_bits
        /\ g.p \in CorePixmap /\ Sound(K, g.p) /\ (g.ok => g.p.gmr)
        /\ g.p.dirty_hw = p.dirty_hw /\ g.p.dirty_present = p.dirty_present
    BY <1>2, CreateGmrMoves, CreateGmrMigrates, MovesSound
  <2>3. CASE ~g.ok
    BY <2>1, <2>2, <2>3
  <2>4. CASE g.ok
    <3>1. PICK c \in ReadbackCall(g.p, lost, fb) :
            o = IF c.ok THEN Done([c.p EXCEPT !.dirty_hw = @ \ lost]) ELSE c
      BY <2>1, <2>4
    <3>2. fb = TRUE
      BY <1>2
    <3>3. \/ c = Failed(g.p)
          \/ c = Done([g.p EXCEPT !.sw_bits = Overlay(@, lost, g.p.fb_bits)])
      BY <3>2 DEF ReadbackCall, NoHazards
    <3>4. CASE c = Failed(g.p)
      <4>1. ~o.ok /\ o.p = g.p
        BY <3>1, <3>4, FailedIs
      <4> QED
        BY <2>2, <4>1
    <3>5. CASE c # Failed(g.p)
      <4> DEFINE v == [g.p EXCEPT !.sw_bits = Overlay(@, lost, g.p.fb_bits)]
      <4>1. o.p = [v EXCEPT !.dirty_hw = @ \ lost]
        BY <3>1, <3>3, <3>5, DoneIs
      <4>2. g.p \in PixmapRecord
        BY <2>2 DEF CorePixmap
      <4>3. /\ v.sw_bits = Overlay(g.p.sw_bits, lost, g.p.fb_bits)
            /\ o.p.sw_bits = v.sw_bits /\ o.p.dirty_hw = g.p.dirty_hw \ lost
            /\ o.p.malloc = g.p.malloc /\ o.p.gmr = g.p.gmr /\ o.p.hw = g.p.hw
            /\ o.p.damage = g.p.damage /\ o.p.sync = g.p.sync
            /\ o.p.unshown = g.p.unshown
            /\ o.p.dirty_shadow = g.p.dirty_shadow
            /\ o.p.dirty_present = g.p.dirty_present
            /\ o.p.hw_bits = g.p.hw_bits /\ o.p.fb_bits = g.p.fb_bits
        BY <4>1, <4>2 DEF PixmapRecord
      <4> HIDE DEF v
      <4>4. \A t \in Tiles : o.p.sw_bits[t] = IF t \in lost THEN g.p.fb_bits[t]
                                                            ELSE g.p.sw_bits[t]
        BY <4>3 DEF Overlay
      <4>5. HasStorage(o.p) /\ DirtyOK(g.p)
        BY <2>2, <2>4, <4>3 DEF HasStorage, CorePixmap
      <4>6. \A t \in Tiles : TileSound(K, o.p, t) /\ At(o.p, t) = At(g.p, t)
        <5> SUFFICES ASSUME NEW t \in Tiles
                     PROVE  TileSound(K, o.p, t) /\ At(o.p, t) = At(g.p, t)
          OBVIOUS
        <5>1. TileSound(K, g.p, t)
          BY <2>2 DEF Sound
        <5>2. CASE t \in lost
          <6>1. t \in g.p.dirty_hw /\ t \in g.p.dirty_present /\ t \notin o.p.dirty_hw
            BY <2>2, <4>3, <5>2
          <6>2. o.p.sw_bits[t] = g.p.fb_bits[t]
            BY <4>4, <5>2
          <6> QED
            BY <4>3, <4>5, <5>1, <6>1, <6>2 DEF TileSound, At
        <5>3. CASE t \notin lost
          <6>1. t \in o.p.dirty_hw <=> t \in g.p.dirty_hw
            BY <4>3, <5>3
          <6>2. o.p.sw_bits[t] = g.p.sw_bits[t]
            BY <4>4, <5>3
          <6>3. HasStorage(g.p)
            BY <2>2, <2>4 DEF HasStorage
          <6> QED
            BY <4>3, <4>5, <5>1, <6>1, <6>2, <6>3 DEF TileSound, At
        <5> QED
          BY <5>2, <5>3
      <4>7. \A t \in Tiles : At(o.p, t) = At(p, t)
        BY <2>2, <4>6 DEF Moves
      <4>8. Moves(K, p, o.p)
        BY <1>0, <2>2, <4>3, <4>6, <4>7, MovesByTile DEF Moves
      <4>9. o.p.dirty_hw \cap o.p.dirty_present \cap R = {}
        BY <2>2, <4>3
      <4> QED
        BY <1>0, <2>2, <4>3, <4>8, <4>9
    <3> QED
      BY <3>4, <3>5
  <2> QED
    BY <2>3, <2>4
<1> QED
  BY <1>1, <1>2

(* A download brings what only the surface has to software.                *)
LEMMA DownloadSurfaceMoves ==
  ASSUME NEW K, NoHazards, NEW p \in CorePixmap, Sound(K, p), p.hw,
         NEW R \in SUBSET p.dirty_hw, R \cap p.dirty_present = {},
         NEW o \in DownloadSurface(p, R)
  PROVE  /\ Moves(K, p, o.p) /\ o.p.hw_bits = p.hw_bits
         /\ o.ok => o.p.dirty_hw \cap R = {}
<1>0. Migrates(p, o.p) /\ (o.p.hw <=> p.hw)
  BY DownloadSurfaceMigrates
<1>1. PICK a \in CreateSw(p) :
        o \in IF a.ok
              THEN { IF c.ok THEN Done([c.p EXCEPT !.dirty_hw = @ \ R]) ELSE c :
                     c \in Dma(a.p, R, FALSE) }
              ELSE {a}
  BY DEF DownloadSurface
<1>2. /\ Moves(K, p, a.p) /\ a.p.hw /\ a.p.hw_bits = p.hw_bits
      /\ a.ok => HasStorage(a.p)
      /\ a.p \in PixmapRecord /\ Sound(K, a.p)
  BY CreateSwMoves, MovesSound DEF CorePixmap
<1>3. CASE ~a.ok
  BY <1>1, <1>2, <1>3
<1>4. CASE a.ok
  <2>1. PICK c \in Dma(a.p, R, FALSE) :
          o = IF c.ok THEN Done([c.p EXCEPT !.dirty_hw = @ \ R]) ELSE c
    BY <1>1, <1>4
  <2> DEFINE v == [a.p EXCEPT !.sw_bits = Overlay(@, R, a.p.hw_bits)]
  <2>2. c = Failed(a.p) \/ c = Done(v)
    BY <1>2, <1>4 DEF Dma, NoHazards
  <2>3. CASE c = Failed(a.p)
    <3>1. ~o.ok /\ o.p = a.p
      BY <2>1, <2>3, FailedIs
    <3> QED
      BY <1>2, <3>1
  <2>4. CASE c = Done(v)
    <3>1. o.p = [v EXCEPT !.dirty_hw = @ \ R]
      BY <2>1, <2>4, DoneIs
    <3>2. /\ v.sw_bits = Overlay(a.p.sw_bits, R, a.p.hw_bits)
          /\ o.p.sw_bits = v.sw_bits /\ o.p.dirty_hw = a.p.dirty_hw \ R
          /\ o.p.malloc = a.p.malloc /\ o.p.gmr = a.p.gmr /\ o.p.hw = a.p.hw
          /\ o.p.damage = a.p.damage /\ o.p.sync = a.p.sync
          /\ o.p.unshown = a.p.unshown
          /\ o.p.dirty_shadow = a.p.dirty_shadow
          /\ o.p.dirty_present = a.p.dirty_present
          /\ o.p.hw_bits = a.p.hw_bits /\ o.p.fb_bits = a.p.fb_bits
      BY <1>2, <3>1 DEF PixmapRecord
    <3> HIDE DEF v
    <3>3. \A t \in Tiles : o.p.sw_bits[t] = IF t \in R THEN a.p.hw_bits[t]
                                                       ELSE a.p.sw_bits[t]
      BY <3>2 DEF Overlay
    <3>4. HasStorage(o.p) /\ HasStorage(a.p)
      BY <1>2, <1>4, <3>2 DEF HasStorage
    <3>5. R \cap a.p.dirty_present = {}
      BY <1>2 DEF Moves, Migrates
    <3>6. \A t \in Tiles : TileSound(K, o.p, t) /\ At(o.p, t) = At(p, t)
      <4> SUFFICES ASSUME NEW t \in Tiles
                   PROVE  TileSound(K, o.p, t) /\ At(o.p, t) = At(p, t)
        OBVIOUS
      <4>1. TileSound(K, a.p, t) /\ At(a.p, t) = At(p, t)
        BY <1>2 DEF Moves, Sound
      <4>2. CASE t \in R
        <5>1. t \in p.dirty_hw /\ t \notin p.dirty_present
          BY <4>2
        <5>2. t \notin o.p.dirty_hw /\ t \notin o.p.dirty_present
          BY <3>2, <3>5, <4>2
        <5>3. At(p, t) = a.p.hw_bits[t]
          BY <1>2, <5>1 DEF At
        <5> QED
          BY <1>2, <3>2, <3>3, <3>4, <4>1, <4>2, <5>2, <5>3 DEF TileSound, At
      <4>3. CASE t \notin R
        <5>1. t \in o.p.dirty_hw <=> t \in a.p.dirty_hw
          BY <3>2, <4>3
        <5>2. o.p.sw_bits[t] = a.p.sw_bits[t]
          BY <3>3, <4>3
        <5> QED
          BY <3>2, <3>4, <4>1, <5>1, <5>2 DEF TileSound, At
      <4> QED
        BY <4>2, <4>3
    <3>7. /\ o.p.fb_bits = p.fb_bits /\ o.p.sync = p.sync
          /\ o.p.unshown = p.unshown
          /\ p.hw => o.p.hw /\ o.p.dirty_shadow \subseteq p.dirty_shadow
      BY <1>2, <3>2 DEF Moves
    <3>8. Moves(K, p, o.p)
      BY <1>0, <3>6, <3>7, MovesByTile
    <3>9. o.p.dirty_hw \cap R = {}
      BY <3>2
    <3> QED
      BY <1>2, <3>2, <3>8, <3>9
  <2> QED
    BY <2>2, <2>3, <2>4
<1> QED
  BY <1>3, <1>4

(* vmwgfx_download_from_hw brings all that software lacks of R there.      *)
LEMMA DownloadFromHwMoves ==
  ASSUME NEW K, NoHazards, NEW p \in CorePixmap, Sound(K, p), NEW R,
         NEW o \in DownloadFromHw(p, R)
  PROVE  /\ Moves(K, p, o.p) /\ o.p.hw_bits = p.hw_bits
         /\ o.ok => o.p.dirty_hw \cap R = {}
<1>1. PICK a \in PresentReadback(p, R, TRUE) :
        o \in IF ~a.ok \/ a.p.dirty_hw = {} \/ ~a.p.hw THEN {a}
              ELSE DownloadSurface(a.p, R \cap a.p.dirty_hw)
  BY DEF DownloadFromHw
<1>2. /\ Moves(K, p, a.p) /\ a.p.hw_bits = p.hw_bits
      /\ a.ok => a.p.dirty_hw \cap a.p.dirty_present \cap R = {}
      /\ a.p \in CorePixmap /\ Sound(K, a.p)
  <2>1. /\ Moves(K, p, a.p) /\ a.p.hw_bits = p.hw_bits
        /\ a.ok => a.p.dirty_hw \cap a.p.dirty_present \cap R = {}
    <3> DEFINE fb == TRUE
    <3>1. fb \in BOOLEAN /\ (fb \/ p.dirty_present = {})
      OBVIOUS
    <3>2. a \in PresentReadback(p, R, fb)
      OBVIOUS
    <3> HIDE DEF fb
    <3> QED
      BY <3>1, <3>2, PresentReadbackMoves
  <2> QED
    BY <2>1, MovesSound
<1>3. CASE ~a.ok \/ a.p.dirty_hw = {} \/ ~a.p.hw
  <2>1. o = a
    BY <1>1, <1>3
  <2>2. a.ok => a.p.dirty_hw \cap R = {}
    BY <1>2, <1>3 DEF CorePixmap, PixmapRecord, Sound, TileSound
  <2> QED
    BY <1>2, <2>1, <2>2
<1>4. CASE a.ok /\ ~(a.p.dirty_hw = {} \/ ~a.p.hw)
  <2> DEFINE S == R \cap a.p.dirty_hw
  <2>1. o \in DownloadSurface(a.p, S) /\ S \in SUBSET a.p.dirty_hw
    BY <1>1, <1>4
  <2>2. S \cap a.p.dirty_present = {} /\ a.p.hw
    BY <1>2, <1>4
  <2> HIDE DEF S
  <2>3. /\ Moves(K, a.p, o.p) /\ o.p.hw_bits = a.p.hw_bits
        /\ o.ok => o.p.dirty_hw \cap S = {}
    BY <1>2, <2>1, <2>2, DownloadSurfaceMoves
  <2>4. o.ok => o.p.dirty_hw \cap R = {}
    BY <2>3 DEF S, Moves, Migrates
  <2> QED
    BY <1>2, <2>3, <2>4, MovesTransitive
<1> QED
  BY <1>3, <1>4

(* An upload of tiles that are current in software.                        *)
LEMMA UploadMoves ==
  ASSUME NEW K, NoHazards, NEW p \in CorePixmap, Sound(K, p), p.hw,
         NEW S \in SUBSET (p.dirty_shadow \cup p.dirty_present),
         S \cap p.dirty_hw = {},
         NEW a \in Dma(p, S, TRUE), a.ok,
         NEW q, q = [a.p EXCEPT !.dirty_shadow = @ \ S,
         !.dirty_present = @ \ S]
  PROVE  Moves(K, p, q)
<1>1. p \in PixmapRecord
  BY DEF CorePixmap
<1>2. Migrates(p, a.p) /\ (a.p.hw <=> p.hw) /\ a.p \in CorePixmap
  BY DmaMigrates, MigratesInOrder
<1>3. Migrates(p, q)
  <2>1. q = DropStale(a.p, S)
    BY DEF DropStale
  <2>2. Migrates(a.p, q)
    BY <1>2, <2>1, ShrinkMigrates
  <2> QED
    BY <1>2, <2>2, MigratesTransitive
<1>4. /\ q.malloc = p.malloc /\ q.gmr = p.gmr /\ q.hw = p.hw
      /\ q.damage = p.damage /\ q.sync = p.sync /\ q.unshown = p.unshown
      /\ q.dirty_shadow = p.dirty_shadow \ S
      /\ q.dirty_present = p.dirty_present \ S
      /\ q.dirty_hw = p.dirty_hw
      /\ q.sw_bits = p.sw_bits /\ q.fb_bits = p.fb_bits
      /\ q.hw_bits = IF HasStorage(p) THEN Overlay(p.hw_bits, S, p.sw_bits)
                                      ELSE p.hw_bits
  <2>1. CASE ~HasStorage(p)
    <3>1. a.p = p
      BY <2>1, DoneIs DEF Dma
    <3> QED
      BY <1>1, <2>1, <3>1 DEF PixmapRecord
  <2>2. CASE HasStorage(p)
    <3> DEFINE v == [p EXCEPT !.hw_bits = Overlay(@, S, p.sw_bits)]
    <3>1. a = Failed(p) \/ a = Done(v)
      BY <2>2 DEF Dma, NoHazards
    <3>2. a.p = v
      BY <3>1, DoneIs, FailedIs
    <3>3. q = [v EXCEPT !.dirty_shadow = @ \ S, !.dirty_present = @ \ S]
      BY <3>2
    <3>4. /\ v.malloc = p.malloc /\ v.gmr = p.gmr /\ v.hw = p.hw
          /\ v.damage = p.damage /\ v.sync = p.sync /\ v.unshown = p.unshown
          /\ v.dirty_shadow = p.dirty_shadow /\ v.dirty_present = p.dirty_present
          /\ v.dirty_hw = p.dirty_hw
          /\ v.sw_bits = p.sw_bits /\ v.fb_bits = p.fb_bits
          /\ v.hw_bits = Overlay(p.hw_bits, S, p.sw_bits)
      BY <1>1 DEF PixmapRecord
    <3>5. v \in PixmapRecord
      BY <1>2, <3>2 DEF CorePixmap
    <3> HIDE DEF v
    <3> QED
      BY <2>2, <3>3, <3>4, <3>5 DEF PixmapRecord
  <2> QED
    BY <2>1, <2>2
<1>5. DirtyOK(p) /\ StorageOK(p)
  BY DEF CorePixmap
<1>6. ~HasStorage(p) => p.dirty_present = {}
  BY <1>5, OptionsAssumption DEF DirtyOK, StorageOK, HasStorage
<1>7. HasStorage(q) <=> HasStorage(p)
  BY <1>4 DEF HasStorage
<1>8. \A t \in Tiles : TileSound(K, q, t) /\ At(q, t) = At(p, t)
  <2> SUFFICES ASSUME NEW t \in Tiles
               PROVE  TileSound(K, q, t) /\ At(q, t) = At(p, t)
    OBVIOUS
  <2>1. TileSound(K, p, t)
    BY DEF Sound
  <2>2. q.hw_bits[t] = IF HasStorage(p) /\ t \in S THEN p.sw_bits[t] ELSE p.hw_bits[t]
    BY <1>4 DEF Overlay
  <2>3. CASE t \in S
    <3>1. t \notin p.dirty_hw /\ t \notin q.dirty_shadow /\ t \notin q.dirty_present
      BY <1>4, <2>3
    <3> QED
      BY <1>4, <1>7, <2>1, <2>2, <2>3, <3>1 DEF TileSound, At
  <2>4. CASE t \notin S
    <3>1. /\ t \in q.dirty_shadow <=> t \in p.dirty_shadow
          /\ t \in q.dirty_present <=> t \in p.dirty_present
      BY <1>4, <2>4
    <3>2. q.hw_bits[t] = p.hw_bits[t]
      BY <2>2, <2>4
    <3>3. At(q, t) = At(p, t)
      BY <1>4, <3>1, <3>2 DEF At
    <3> QED
      BY <1>4, <1>7, <2>1, <3>1, <3>2, <3>3 DEF TileSound
  <2> QED
    BY <2>3, <2>4
<1> QED
  BY <1>3, <1>4, <1>8, MovesByTile

(* The surface holds what the driver would find at the tiles of R.         *)
SurfaceCurrent(v, R) == v.hw /\ R \cap (v.dirty_shadow \cup v.dirty_present) = {}

(* Where no region marks it stale the surface is current, as software is   *)
(* outside dirty_hw ...                                                    *)
LEMMA CurrentBits ==
  ASSUME NEW K, NEW v, Sound(K, v), NEW R, NEW t \in Tiles, t \in R
  PROVE  /\ t \in K /\ SurfaceCurrent(v, R) => v.hw_bits[t] = At(v, t)
         /\ v.dirty_hw \cap R = {} => v.sw_bits[t] = At(v, t)
<1>1. TileSound(K, v, t)
  BY DEF Sound
<1>2. ASSUME t \in K, SurfaceCurrent(v, R) PROVE v.hw_bits[t] = At(v, t)
  <2>1. v.hw /\ t \notin v.dirty_shadow /\ t \notin v.dirty_present
    BY <1>2 DEF SurfaceCurrent
  <2> QED
    BY <1>1, <1>2, <2>1 DEF TileSound, At
<1>3. ASSUME v.dirty_hw \cap R = {} PROVE v.sw_bits[t] = At(v, t)
  BY <1>3 DEF At
<1> QED
  BY <1>2, <1>3

(* ... and a move leaves either so.                                        *)
LEMMA MovesCurrent ==
  ASSUME NEW K, NEW p, NEW q, Moves(K, p, q), NEW R
  PROVE  /\ SurfaceCurrent(p, R) => SurfaceCurrent(q, R)
         /\ p.dirty_hw \cap R = {} => q.dirty_hw \cap R = {}
BY DEF Moves, Migrates, SurfaceCurrent

(* The surface is brought up to date on R.                                 *)
LEMMA UploadStaleMoves ==
  ASSUME NEW K, NoHazards, NEW p \in CorePixmap, Sound(K, p), p.hw, NEW R,
         R \cap p.dirty_hw \cap p.dirty_present = {},
         NEW o \in UploadStale(p, R)
  PROVE  Moves(K, p, o.p) /\ (o.ok => SurfaceCurrent(o.p, R))
<1> DEFINE stale == (p.dirty_shadow \cup p.dirty_present) \cap R
<1>1. p.damage
  BY DEF CorePixmap, StorageOK
<1>2. CASE stale = {}
  <2>1. o.p = p
    BY <1>2, DoneIs DEF UploadStale
  <2> QED
    BY <1>2, <2>1, MovesReflexive DEF SurfaceCurrent
<1>3. CASE stale # {}
  <2>1. PICK a \in Dma(p, stale, TRUE) :
          o = IF a.ok THEN Done([a.p EXCEPT !.dirty_shadow = @ \ stale,
                                            !.dirty_present = @ \ stale])
                      ELSE a
    BY <1>1, <1>3 DEF UploadStale, UploadToHw
  <2>2. stale \in SUBSET (p.dirty_shadow \cup p.dirty_present)
    OBVIOUS
  <2>3. stale \cap p.dirty_hw = {}
    BY DEF CorePixmap, DirtyOK
  <2>4. CASE ~a.ok
    <3>1. a = Failed(p)
      BY <2>1, <2>4, DoneIs DEF Dma, NoHazards
    <3>2. o.p = p /\ ~o.ok
      BY <2>1, <3>1, FailedIs
    <3> QED
      BY <3>2, MovesReflexive
  <2>5. CASE a.ok
    <3> DEFINE q == [a.p EXCEPT !.dirty_shadow = @ \ stale,
                                !.dirty_present = @ \ stale]
    <3>1. o.p = q
      BY <2>1, <2>5, DoneIs
    <3>2. Moves(K, p, o.p)
      <4> HIDE DEF stale
      <4> QED
        BY <2>2, <2>3, <2>5, <3>1, UploadMoves
    <3>3. o.p.dirty_shadow \cap R = {} /\ o.p.dirty_present \cap R = {}
      <4>1. /\ o.p.dirty_shadow = a.p.dirty_shadow \ stale
            /\ o.p.dirty_present = a.p.dirty_present \ stale
        <5>1. a.p \in PixmapRecord
          BY DmaMigrates, MigratesInOrder DEF CorePixmap
        <5> HIDE DEF stale
        <5> QED
          BY <3>1, <5>1 DEF PixmapRecord
      <4>2. a.p.dirty_shadow = p.dirty_shadow /\ a.p.dirty_present = p.dirty_present
        <5>1. \/ a.p = p
              \/ a.p = [p EXCEPT !.hw_bits = Overlay(@, stale, p.sw_bits)]
          BY DoneIs, FailedIs DEF Dma
        <5> HIDE DEF stale
        <5> QED
          BY <5>1 DEF CorePixmap, PixmapRecord
      <4> QED
        BY <4>1, <4>2
    <3>4. o.p.hw
      BY <3>2 DEF Moves
    <3> QED
      BY <3>2, <3>3, <3>4 DEF SurfaceCurrent
  <2> QED
    BY <2>4, <2>5
<1> QED
  BY <1>2, <1>3

(* A flush of dirty_shadow leaves nothing stale in the surface.            *)
LEMMA FlushShadowMoves ==
  ASSUME NEW K, NoHazards, NEW p \in CorePixmap, Sound(K, p), p.hw,
         NEW o \in FlushShadow(p)
  PROVE  Moves(K, p, o.p) /\ (o.ok => o.p.dirty_shadow = {})
<1> DEFINE S == p.dirty_shadow
<1>1. PICK a \in Dma(p, S, TRUE) :
        o = IF a.ok THEN Done([a.p EXCEPT !.dirty_shadow = {}]) ELSE a
  BY DEF FlushShadow, UploadToHw
<1>2. S \in SUBSET (p.dirty_shadow \cup p.dirty_present)
  OBVIOUS
<1>3. S \cap p.dirty_hw = {} /\ S \cap p.dirty_present = {} /\ p \in PixmapRecord
  BY DEF CorePixmap, DirtyOK
<1>4. CASE ~a.ok
  <2>1. a = Failed(p)
    BY <1>1, <1>4, DoneIs DEF Dma, NoHazards
  <2>2. o.p = p /\ ~o.ok
    BY <1>1, <2>1, FailedIs
  <2> QED
    BY <2>2, MovesReflexive
<1>5. CASE a.ok
  <2> DEFINE q == [a.p EXCEPT !.dirty_shadow = @ \ S, !.dirty_present = @ \ S]
             r == [a.p EXCEPT !.dirty_shadow = {}]
  <2>1. o.p = r
    BY <1>1, <1>5, DoneIs
  <2>2. Moves(K, p, q)
    <3> HIDE DEF S
    <3> QED
      BY <1>2, <1>3, <1>5, UploadMoves
  <2>3. /\ a.p \in PixmapRecord /\ a.p.dirty_shadow = p.dirty_shadow
        /\ a.p.dirty_present = p.dirty_present
    <3>1. a.p \in PixmapRecord
      BY DmaMigrates, MigratesInOrder DEF CorePixmap
    <3>2. a.p = p \/ a.p = [p EXCEPT !.hw_bits = Overlay(@, S, p.sw_bits)]
      BY DoneIs, FailedIs DEF Dma
    <3> QED
      BY <1>3, <3>1, <3>2 DEF PixmapRecord
  <2>4. a.p.dirty_shadow \ S = {} /\ a.p.dirty_present \ S = a.p.dirty_present
    BY <1>3, <2>3
  <2>5. q = [a.p EXCEPT !.dirty_shadow = {}, !.dirty_present = @]
    BY <2>4
  <2>6. q = r
    BY <2>3, <2>5 DEF PixmapRecord
  <2>7. r.dirty_shadow = {}
    BY <2>3 DEF PixmapRecord
  <2> QED
    BY <2>1, <2>2, <2>6, <2>7
<1> QED
  BY <1>4, <1>5

(* vmwgfx_hw_validate: whatever else is current is brought to the surface. *)
LEMMA HwValidateMoves ==
  ASSUME NEW K, NoHazards, NEW p \in CorePixmap, Sound(K, p), p.hw, NEW R,
         NEW o \in HwValidate(p, R)
  PROVE  Moves(K, p, o.p) /\ (o.ok => SurfaceCurrent(o.p, R))
<1>1. PICK a \in PresentReadback(p, R, TRUE) :
        o \in IF a.ok THEN UploadStale(a.p, R) ELSE {a}
  BY DEF HwValidate
<1>2. /\ Moves(K, p, a.p) /\ a.p.hw
      /\ a.ok => a.p.dirty_hw \cap a.p.dirty_present \cap R = {}
  BY PresentReadbackMoves
<1>3. a.p \in CorePixmap /\ Sound(K, a.p)
  BY <1>2, MovesSound
<1>4. CASE ~a.ok
  BY <1>1, <1>2, <1>4
<1>5. CASE a.ok
  <2>1. R \cap a.p.dirty_hw \cap a.p.dirty_present = {}
    BY <1>2, <1>5
  <2>2. Moves(K, a.p, o.p) /\ (o.ok => SurfaceCurrent(o.p, R))
    BY <1>1, <1>2, <1>3, <1>5, <2>1, UploadStaleMoves
  <2> QED
    BY <1>2, <2>2, MovesTransitive
<1> QED
  BY <1>4, <1>5

(* A surface is there after vmwgfx_hw_commit.                              *)
LEMMA HwCommitMoves ==
  ASSUME NEW K, NoHazards, NEW p \in CorePixmap, Sound(K, p),
         NEW o \in HwCommit(p)
  PROVE  Moves(K, p, o.p) /\ (o.ok => o.p.hw)
<1>1. o \in (CASE ~Done(p).ok -> {Done(p)}
               [] Done(p).ok /\ Done(p).p.hw -> {Done(Done(p).p), Failed(Done(p).p)}
               [] Done(p).ok /\ ~Done(p).p.hw -> CreateHw(Done(p).p))
  BY DEF HwCommit, NoHazards
<1>2. CASE p.hw
  <2>1. o = Done(p) \/ o = Failed(p)
    BY <1>1, <1>2, DoneIs
  <2>2. o.p = p
    BY <2>1, DoneIs, FailedIs
  <2> QED
    BY <1>2, <2>2, MovesReflexive
<1>3. CASE ~p.hw
  <2>1. o \in CreateHw(p)
    BY <1>1, <1>3, DoneIs
  <2> QED
    BY <2>1, CreateHwMoves, CreateHwMigrates
<1> QED
  BY <1>2, <1>3

(* vmwgfx_hw_accel_validate leaves a surface that is current on R.         *)
LEMMA HwAccelValidateMoves ==
  ASSUME NEW K, NoHazards, NEW p \in CorePixmap, Sound(K, p), NEW R,
         NEW o \in HwAccelValidate(p, R)
  PROVE  Moves(K, p, o.p) /\ (o.ok => SurfaceCurrent(o.p, R))
<1>1. CASE o = Failed(p)
  BY <1>1, FailedIs, MovesReflexive
<1>2. CASE o # Failed(p)
  <2>1. PICK a \in HwCommit(p) : o \in IF a.ok THEN HwValidate(a.p, R) ELSE {a}
    BY <1>2 DEF HwAccelValidate
  <2>2. Moves(K, p, a.p) /\ (a.ok => a.p.hw)
    BY HwCommitMoves
  <2>3. a.p \in CorePixmap /\ Sound(K, a.p)
    BY <2>2, MovesSound
  <2>4. CASE ~a.ok
    BY <2>1, <2>2, <2>4
  <2>5. CASE a.ok
    <3>1. Moves(K, a.p, o.p) /\ (o.ok => SurfaceCurrent(o.p, R))
      BY <2>1, <2>2, <2>3, <2>5, HwValidateMoves
    <3> QED
      BY <2>2, <3>1, MovesTransitive
  <2> QED
    BY <2>4, <2>5
<1> QED
  BY <1>1, <1>2

(* CPU access finds software storage that is current on R.                 *)
LEMMA PrepareAccessMoves ==
  ASSUME NEW K, NoHazards, NEW p \in CorePixmap, Sound(K, p), NEW R,
         NEW o \in PrepareAccess(p, R)
  PROVE  /\ Moves(K, p, o.p) /\ o.p.hw_bits = p.hw_bits
         /\ o.ok => HasStorage(o.p) /\ o.p.dirty_hw \cap R = {}
<1>1. PICK a \in (IF R = {} THEN {Done(p)} ELSE DownloadFromHw(p, R)) :
        o \in IF a.ok THEN { c \in CreateSw(a.p) : c.ok } ELSE {a}
  BY DEF PrepareAccess
<1>2. /\ Moves(K, p, a.p) /\ a.p.hw_bits = p.hw_bits
      /\ a.ok => a.p.dirty_hw \cap R = {}
  <2>1. CASE R = {}
    BY <1>1, <2>1, DoneIs, MovesReflexive
  <2>2. CASE R # {}
    BY <1>1, <2>2, DownloadFromHwMoves
  <2> QED
    BY <2>1, <2>2
<1>3. a.p \in CorePixmap /\ Sound(K, a.p)
  BY <1>2, MovesSound
<1>4. CASE ~a.ok
  BY <1>1, <1>2, <1>4
<1>5. CASE a.ok
  <2>1. Moves(K, a.p, o.p) /\ o.p.hw_bits = a.p.hw_bits /\ HasStorage(o.p)
    BY <1>1, <1>3, <1>5, CreateSwMoves
  <2>2. o.p.dirty_hw \cap R = {}
    BY <1>2, <1>5, <2>1, MovesCurrent
  <2> QED
    BY <1>2, <2>1, <2>2, MovesTransitive
<1> QED
  BY <1>4, <1>5

----------------------------------------------------------------------------
(* Damage and the framebuffer.                                             *)

(* r is v but for what the framebuffer shows and what waits for it.        *)
Repaints(v, r) ==
  /\ r.malloc = v.malloc /\ r.gmr = v.gmr /\ (r.hw <=> v.hw)
  /\ (r.damage <=> v.damage) /\ r.fronts = v.fronts /\ r.sync = v.sync
  /\ r.dirty_shadow = v.dirty_shadow /\ r.dirty_hw = v.dirty_hw
  /\ r.dirty_present = v.dirty_present
  /\ r.sw_bits = v.sw_bits /\ r.hw_bits = v.hw_bits
  /\ \A t \in Tiles : t \in v.dirty_present => r.fb_bits[t] = v.fb_bits[t]

(* What was presented stays, so no contents are touched.                   *)
LEMMA RepaintsSound ==
  ASSUME NEW K, NEW v, Sound(K, v), NEW r, Repaints(v, r)
  PROVE  Sound(K, r) /\ \A t \in Tiles : At(r, t) = At(v, t)
<1>1. \A t \in Tiles : At(r, t) = At(v, t)
  BY DEF Repaints, At
<1>2. HasStorage(r) <=> HasStorage(v)
  BY DEF Repaints, HasStorage
<1>3. ASSUME NEW t \in Tiles PROVE TileSound(K, r, t)
  <2>1. TileSound(K, v, t)
    BY DEF Sound
  <2> QED
    BY <1>1, <1>2, <2>1 DEF Repaints, TileSound
<1>4. r.fronts > 0 \/ r.sync => r.hw
  BY DEF Repaints, Sound
<1> QED
  BY <1>1, <1>3, <1>4 DEF Sound

(* The framebuffer is told of the damage.                                  *)
LEMMA ScanoutUpdateIs ==
  ASSUME NoHazards, NEW p, NEW R, NEW bits, NEW q \in ScanoutUpdate(p, R,
         bits)
  PROVE  q = [p EXCEPT !.fb_bits = Overlay(@, R, bits)]
BY DEF ScanoutUpdate, NoHazards

(* A flush sends what waits: presents from the surface, updates from the   *)
(* surface too where it is the framebuffer, which is first brought up to   *)
(* date, and from software elsewhere.                                      *)
LEMMA FlushSends ==
  ASSUME NEW K, NoHazards, NEW p \in PixmapRecord, p.scanout,
         OnlyHwPresents => p \in CorePixmap /\ Sound(K, p), NEW r \in Flush(p)
  PROVE  \E v \in PixmapRecord :
           /\ v = p \/ (OnlyHwPresents /\ Moves(K, p, v))
           /\ r.malloc = v.malloc /\ r.gmr = v.gmr /\ (r.hw <=> v.hw)
           /\ (r.damage <=> v.damage) /\ r.fronts = v.fronts /\ r.sync = v.sync
           /\ r.dirty_shadow = v.dirty_shadow /\ r.dirty_hw = v.dirty_hw
           /\ r.dirty_present = v.dirty_present /\ (r.scanout <=> v.scanout)
           /\ r.sw_bits = v.sw_bits /\ r.hw_bits = v.hw_bits
           /\ r.pending_update = {} /\ r.pending_present = {}
           /\ \A t \in Tiles :
                \/ t \in p.pending_present /\ r.fb_bits[t] = v.hw_bits[t]
                \/ t \in p.pending_update /\ OnlyHwPresents
                   /\ (t \in r.unshown \/ (t \in K => r.fb_bits[t] = At(v, t)))
                \/ t \in p.pending_update /\ ~OnlyHwPresents
                   /\ r.fb_bits[t] = v.sw_bits[t]
                \/ /\ t \notin p.pending_update
                   /\ t \notin p.pending_present \/ ~v.hw
                   /\ r.fb_bits[t] = p.fb_bits[t]
                   /\ t \in p.unshown \ p.pending_present => t \in r.unshown
<1>1. CASE OnlyHwPresents
  <2>1. PICK u \in UploadPending(p) :
          r \in { [x EXCEPT !.pending_update = {}, !.pending_present = {},
                           !.unshown = @ \ p.pending_present] :
                  x \in ScanoutUpdate(u, u.pending_present, u.hw_bits) }
    BY <1>1 DEF Flush
  <2>2. PICK x \in ScanoutUpdate(u, u.pending_present, u.hw_bits) :
          r = [x EXCEPT !.pending_update = {}, !.pending_present = {},
                        !.unshown = @ \ p.pending_present]
    BY <2>1
  <2>3. x = [u EXCEPT !.fb_bits = Overlay(@, u.pending_present, u.hw_bits)]
    BY <2>2, ScanoutUpdateIs
  <2>4. PICK v \in CorePixmap, N \in SUBSET Tiles :
          /\ Moves(K, p, v)
          /\ p.pending_update # {} =>
               SurfaceCurrent(v, Tiles) \/ p.pending_update \subseteq N
          /\ p.unshown \ p.pending_update \subseteq N
          /\ u = [v EXCEPT !.pending_present = @ \cup p.pending_update,
                           !.unshown = N]
    <3>1. CASE p.pending_update = {}
      <4>1. u = p /\ p \in CorePixmap
        BY <1>1, <2>1, <3>1 DEF UploadPending
      <4>2. u = [u EXCEPT !.pending_present = @ \cup p.pending_update,
                          !.unshown = p.unshown]
        BY <3>1, <4>1 DEF PixmapRecord
      <4>3. Moves(K, p, p) /\ p.unshown \in SUBSET Tiles
        BY <1>1, MovesReflexive DEF PixmapRecord
      <4> QED
        BY <3>1, <4>1, <4>2, <4>3
    <3>2. CASE p.pending_update # {}
      <4>1. PICK o \in HwAccelValidate(p, Tiles) :
              u = [o.p EXCEPT !.pending_present = @ \cup p.pending_update,
                              !.unshown = IF o.ok THEN @ \ p.pending_update
                                          ELSE @ \cup p.pending_update]
        BY <2>1, <3>2 DEF UploadPending
      <4>2. Moves(K, p, o.p) /\ (o.ok => SurfaceCurrent(o.p, Tiles))
        BY <1>1, <4>1, HwAccelValidateMoves
      <4>3. o.p \in CorePixmap /\ o.p.unshown = p.unshown
        BY <4>2, MovesSound DEF Moves
      <4> DEFINE N == IF o.ok THEN p.unshown \ p.pending_update
                      ELSE p.unshown \cup p.pending_update
      <4>4. /\ N \in SUBSET Tiles /\ p.unshown \ p.pending_update \subseteq N
            /\ o.ok \/ p.pending_update \subseteq N
        BY DEF PixmapRecord
      <4>5. u = [o.p EXCEPT !.pending_present = @ \cup p.pending_update,
                            !.unshown = N]
        BY <4>1, <4>3
      <4> HIDE DEF N
      <4> QED
        BY <4>2, <4>3, <4>4, <4>5
    <3> QED
      BY <3>1, <3>2
  <2>5. v \in PixmapRecord /\ p.pending_update \subseteq Tiles
    BY <2>4 DEF CorePixmap, PixmapRecord
  <2>6. /\ u \in PixmapRecord
        /\ u.malloc = v.malloc /\ u.gmr = v.gmr /\ u.hw = v.hw
        /\ u.damage = v.damage /\ u.fronts = v.fronts /\ u.sync = v.sync
        /\ u.dirty_shadow = v.dirty_shadow /\ u.dirty_hw = v.dirty_hw
        /\ u.dirty_present = v.dirty_present /\ u.scanout = v.scanout
        /\ u.sw_bits = v.sw_bits /\ u.hw_bits = v.hw_bits /\ u.fb_bits = v.fb_bits
        /\ u.pending_present = v.pending_present \cup p.pending_update
        /\ u.unshown = N
    BY <2>4, <2>5 DEF PixmapRecord
  <2>7. Overlay(u.fb_bits, u.pending_present, u.hw_bits) \in Image
    BY <2>6, OverlayType DEF PixmapRecord
  <2>8. /\ x \in PixmapRecord
        /\ x.malloc = u.malloc /\ x.gmr = u.gmr /\ x.hw = u.hw
        /\ x.damage = u.damage /\ x.fronts = u.fronts /\ x.sync = u.sync
        /\ x.dirty_shadow = u.dirty_shadow /\ x.dirty_hw = u.dirty_hw
        /\ x.dirty_present = u.dirty_present /\ x.scanout = u.scanout
        /\ x.sw_bits = u.sw_bits /\ x.hw_bits = u.hw_bits
        /\ x.fb_bits = Overlay(u.fb_bits, u.pending_present, u.hw_bits)
        /\ x.unshown = u.unshown
    BY <2>3, <2>6, <2>7 DEF PixmapRecord
  <2>9. /\ r.malloc = x.malloc /\ r.gmr = x.gmr /\ r.hw = x.hw
        /\ r.damage = x.damage /\ r.fronts = x.fronts /\ r.sync = x.sync
        /\ r.dirty_shadow = x.dirty_shadow /\ r.dirty_hw = x.dirty_hw
        /\ r.dirty_present = x.dirty_present /\ r.scanout = x.scanout
        /\ r.sw_bits = x.sw_bits /\ r.hw_bits = x.hw_bits /\ r.fb_bits = x.fb_bits
        /\ r.pending_update = {} /\ r.pending_present = {}
        /\ r.unshown = x.unshown \ p.pending_present
    BY <2>2, <2>8 DEF PixmapRecord
  <2>10. v.pending_present = p.pending_present /\ v.fb_bits = p.fb_bits
    BY <2>4 DEF Moves, Migrates
  <2>11. \A t \in Tiles : r.fb_bits[t] =
           IF t \in p.pending_present \cup p.pending_update THEN v.hw_bits[t]
                                                            ELSE p.fb_bits[t]
    <3> SUFFICES ASSUME NEW t \in Tiles
                 PROVE  r.fb_bits[t] =
                          IF t \in p.pending_present \cup p.pending_update
                          THEN v.hw_bits[t] ELSE p.fb_bits[t]
      OBVIOUS
    <3>1. r.fb_bits[t] = Overlay(u.fb_bits, u.pending_present, u.hw_bits)[t]
      BY <2>8, <2>9
    <3>2. r.fb_bits[t] = IF t \in u.pending_present THEN u.hw_bits[t] ELSE u.fb_bits[t]
      BY <3>1 DEF Overlay
    <3>3. t \in u.pending_present <=> t \in p.pending_present \cup p.pending_update
      BY <2>6, <2>10
    <3> QED
      BY <2>6, <2>10, <3>2, <3>3
  <2>12. \A t \in Tiles : t \in K /\ SurfaceCurrent(v, Tiles)
                            => v.hw_bits[t] = At(v, t)
    BY <2>4, MovesSound, CurrentBits
  <2>13. \A t \in Tiles :
           \/ t \in p.pending_present /\ r.fb_bits[t] = v.hw_bits[t]
           \/ t \in p.pending_update /\ OnlyHwPresents
              /\ (t \in r.unshown \/ (t \in K => r.fb_bits[t] = At(v, t)))
           \/ /\ t \notin p.pending_update
              /\ t \notin p.pending_present \/ ~v.hw
              /\ r.fb_bits[t] = p.fb_bits[t]
              /\ t \in p.unshown \ p.pending_present => t \in r.unshown
    <3> SUFFICES ASSUME NEW t \in Tiles
        PROVE  \/ t \in p.pending_present /\ r.fb_bits[t] = v.hw_bits[t]
               \/ t \in p.pending_update /\ OnlyHwPresents
                  /\ (t \in r.unshown \/ (t \in K => r.fb_bits[t] = At(v, t)))
               \/ /\ t \notin p.pending_update
                  /\ t \notin p.pending_present \/ ~v.hw
                  /\ r.fb_bits[t] = p.fb_bits[t]
                  /\ t \in p.unshown \ p.pending_present => t \in r.unshown
      OBVIOUS
    <3>1. r.unshown = N \ p.pending_present
      BY <2>6, <2>8, <2>9
    <3>2. CASE t \in p.pending_present
      BY <2>11, <3>2
    <3>3. CASE t \notin p.pending_present /\ t \in p.pending_update
      <4>1. r.fb_bits[t] = v.hw_bits[t]
        BY <2>11, <3>3
      <4>2. CASE SurfaceCurrent(v, Tiles)
        BY <1>1, <2>12, <3>3, <4>1, <4>2
      <4>3. CASE t \in N
        BY <1>1, <3>1, <3>3, <4>3
      <4> QED
        BY <2>4, <3>3, <4>2, <4>3
    <3>4. CASE t \notin p.pending_present /\ t \notin p.pending_update
      <4>1. r.fb_bits[t] = p.fb_bits[t]
        BY <2>11, <3>4
      <4>2. t \in p.unshown => t \in r.unshown
        BY <2>4, <3>1, <3>4
      <4> QED
        BY <3>4, <4>1, <4>2
    <3> QED
      BY <3>2, <3>3, <3>4
  <2>14. /\ r.malloc = v.malloc /\ r.gmr = v.gmr /\ (r.hw <=> v.hw)
         /\ (r.damage <=> v.damage) /\ r.fronts = v.fronts /\ r.sync = v.sync
         /\ r.dirty_shadow = v.dirty_shadow /\ r.dirty_hw = v.dirty_hw
         /\ r.dirty_present = v.dirty_present /\ (r.scanout <=> v.scanout)
         /\ r.sw_bits = v.sw_bits /\ r.hw_bits = v.hw_bits
         /\ r.pending_update = {} /\ r.pending_present = {}
    BY <2>6, <2>8, <2>9
  <2> QED
    BY <1>1, <2>4, <2>5, <2>13, <2>14
<1>2. CASE ~OnlyHwPresents
  <2>1. PICK u \in ScanoutUpdate(p, p.pending_update, p.sw_bits) :
          r \in { [x EXCEPT !.pending_update = {}, !.pending_present = {},
                           !.unshown = @ \ p.pending_present] :
                  x \in ScanoutPresent(u, u.pending_present) }
    BY <1>2 DEF Flush
  <2>2. PICK x \in ScanoutPresent(u, u.pending_present) :
          r = [x EXCEPT !.pending_update = {}, !.pending_present = {},
                        !.unshown = @ \ p.pending_present]
    BY <2>1
  <2>3. u = [p EXCEPT !.fb_bits = Overlay(@, p.pending_update, p.sw_bits)]
    BY <2>1, ScanoutUpdateIs
  <2>4. Overlay(p.fb_bits, p.pending_update, p.sw_bits) \in Image
    BY OverlayType DEF PixmapRecord
  <2>5. /\ u \in PixmapRecord
        /\ u.malloc = p.malloc /\ u.gmr = p.gmr /\ u.hw = p.hw
        /\ u.damage = p.damage /\ u.fronts = p.fronts /\ u.sync = p.sync
        /\ u.dirty_shadow = p.dirty_shadow /\ u.dirty_hw = p.dirty_hw
        /\ u.dirty_present = p.dirty_present /\ u.scanout = p.scanout
        /\ u.sw_bits = p.sw_bits /\ u.hw_bits = p.hw_bits
        /\ u.pending_present = p.pending_present /\ u.unshown = p.unshown
        /\ u.fb_bits = Overlay(p.fb_bits, p.pending_update, p.sw_bits)
    BY <2>3, <2>4 DEF PixmapRecord
  <2>6. /\ x \in PixmapRecord
        /\ x.malloc = u.malloc /\ x.gmr = u.gmr /\ x.hw = u.hw
        /\ x.damage = u.damage /\ x.fronts = u.fronts /\ x.sync = u.sync
        /\ x.dirty_shadow = u.dirty_shadow /\ x.dirty_hw = u.dirty_hw
        /\ x.dirty_present = u.dirty_present /\ x.scanout = u.scanout
        /\ x.sw_bits = u.sw_bits /\ x.hw_bits = u.hw_bits
        /\ x.unshown = u.unshown
        /\ x.fb_bits = IF u.hw THEN Overlay(u.fb_bits, u.pending_present, u.hw_bits)
                               ELSE u.fb_bits
    <3>1. CASE ~u.hw
      <4>1. x = u
        BY <2>2, <3>1 DEF ScanoutPresent
      <4> QED
        BY <2>5, <3>1, <4>1
    <3>2. CASE u.hw
      <4>1. x = [u EXCEPT !.fb_bits = Overlay(@, u.pending_present, u.hw_bits)]
        BY <2>2, <3>2, ScanoutUpdateIs DEF ScanoutPresent
      <4>2. Overlay(u.fb_bits, u.pending_present, u.hw_bits) \in Image
        BY <2>5, OverlayType DEF PixmapRecord
      <4> QED
        BY <2>5, <3>2, <4>1, <4>2 DEF PixmapRecord
    <3> QED
      BY <3>1, <3>2
  <2>7. /\ r.malloc = x.malloc /\ r.gmr = x.gmr /\ r.hw = x.hw
        /\ r.damage = x.damage /\ r.fronts = x.fronts /\ r.sync = x.sync
        /\ r.dirty_shadow = x.dirty_shadow /\ r.dirty_hw = x.dirty_hw
        /\ r.dirty_present = x.dirty_present /\ r.scanout = x.scanout
        /\ r.sw_bits = x.sw_bits /\ r.hw_bits = x.hw_bits /\ r.fb_bits = x.fb_bits
        /\ r.pending_update = {} /\ r.pending_present = {}
        /\ r.unshown = x.unshown \ p.pending_present
    BY <2>2, <2>6 DEF PixmapRecord
  <2>8. \A t \in Tiles : u.fb_bits[t] = IF t \in p.pending_update THEN p.sw_bits[t]
                                                                  ELSE p.fb_bits[t]
    BY <2>5 DEF Overlay
  <2>9. \A t \in Tiles : r.fb_bits[t] =
          IF p.hw /\ t \in p.pending_present THEN p.hw_bits[t] ELSE u.fb_bits[t]
    <3>1. r.fb_bits = IF p.hw THEN Overlay(u.fb_bits, p.pending_present, p.hw_bits)
                              ELSE u.fb_bits
      BY <2>5, <2>6, <2>7
    <3> QED
      BY <3>1 DEF Overlay
  <2>10. \A t \in Tiles :
           \/ t \in p.pending_present /\ r.fb_bits[t] = p.hw_bits[t]
           \/ t \in p.pending_update /\ ~OnlyHwPresents /\ r.fb_bits[t] = p.sw_bits[t]
           \/ /\ t \notin p.pending_update
              /\ t \notin p.pending_present \/ ~p.hw
              /\ r.fb_bits[t] = p.fb_bits[t]
    BY <1>2, <2>8, <2>9
  <2>11. \A t \in Tiles : t \in p.unshown \ p.pending_present => t \in r.unshown
    BY <2>5, <2>6, <2>7
  <2> QED
    BY <1>2, <2>5, <2>6, <2>7, <2>10, <2>11
<1> QED
  BY <1>1, <1>2

(* A flush makes a kept tile c on the framebuffer if that is what waited   *)
(* for it or was there, or keeps in mind that it failed to.                *)
LEMMA FlushShows ==
  ASSUME NEW K, NoHazards, NEW p \in PixmapRecord, p.scanout,
         OnlyHwPresents => p \in CorePixmap /\ Sound(K, p),
         NEW r \in Flush(p),
         NEW t \in Tiles, t \in K, NEW c,
         t \in p.pending_present =>
           /\ p.hw /\ t \notin p.dirty_shadow /\ t \notin p.dirty_present
           /\ p.hw_bits[t] = c,
         t \in p.pending_update => p.sw_bits[t] = c,
         OnlyHwPresents => At(p, t) = c,
         \/ t \in p.pending_update \/ t \in p.pending_present \/ t \in p.unshown
         \/ p.fb_bits[t] = c
  PROVE  t \in r.unshown \/ r.fb_bits[t] = c
<1>1. PICK v \in PixmapRecord :
        /\ v = p \/ (OnlyHwPresents /\ Moves(K, p, v))
        /\ \/ t \in p.pending_present /\ r.fb_bits[t] = v.hw_bits[t]
           \/ t \in p.pending_update /\ OnlyHwPresents
              /\ (t \in r.unshown \/ (t \in K => r.fb_bits[t] = At(v, t)))
           \/ t \in p.pending_update /\ ~OnlyHwPresents
              /\ r.fb_bits[t] = v.sw_bits[t]
           \/ /\ t \notin p.pending_update
              /\ t \notin p.pending_present \/ ~v.hw
              /\ r.fb_bits[t] = p.fb_bits[t]
              /\ t \in p.unshown \ p.pending_present => t \in r.unshown
  BY FlushSends
<1>2. CASE v = p
  BY <1>1, <1>2
<1>3. CASE OnlyHwPresents /\ Moves(K, p, v)
  <2>1. At(v, t) = c
    BY <1>3 DEF Moves
  <2>2. ASSUME t \in p.pending_present PROVE v.hw /\ v.hw_bits[t] = c
    <3>1. SurfaceCurrent(p, {t})
      BY <2>2 DEF SurfaceCurrent
    <3>2. SurfaceCurrent(v, {t}) /\ Sound(K, v)
      BY <1>3, <3>1, MovesCurrent, MovesSound
    <3> QED
      BY <2>1, <3>2, CurrentBits DEF SurfaceCurrent
  <2> QED
    BY <1>1, <1>3, <2>1, <2>2
<1> QED
  BY <1>1, <1>2, <1>3

(* A pixmap in order, its contents where the regions say they are.         *)
Whole(K, v) == v \in GoodPixmap /\ Sound(K, v) /\ PendingSound(v)

(* From p to a whole pixmap with contents m where L says they are kept,    *)
(* its scanout, its front buffers and its surface still there and its      *)
(* screen as fresh.                                                        *)
Renders(K, L, p, q, m) ==
  /\ Whole(L, q)
  /\ (q.scanout <=> p.scanout) /\ q.fronts = p.fronts
  /\ p.hw => q.hw
  /\ Fresh(K, p) => Fresh(L, q)
  /\ \A t \in Tiles : t \in L => At(q, t) = m[t]

(* The contents of a pixmap, tile by tile.                                 *)
LEMMA ContentsAt ==
  ASSUME NEW p \in PixmapRecord
  PROVE  Contents(p) \in Image /\ \A t \in Tiles : Contents(p)[t] = At(p, t)
<1>1. \A t \in Tiles : Contents(p)[t] = At(p, t)
  BY DEF Contents, At
<1>2. \A t \in Tiles : At(p, t) \in Values
  BY DEF At, PixmapRecord, Image
<1> QED
  BY <1>1, <1>2 DEF Contents, Image, At

(* A whole pixmap is whole after a move.                                   *)
LEMMA MovesWhole ==
  ASSUME NEW K, NEW p, Whole(K, p), NEW q, Moves(K, p, q)
  PROVE  /\ Whole(K, q) /\ (q.scanout <=> p.scanout) /\ q.fronts = p.fronts
         /\ p.hw => q.hw
         /\ Fresh(K, p) => Fresh(K, q)
         /\ Flushed(p) => Flushed(q)
         /\ \A t \in Tiles : At(q, t) = At(p, t)
<1>1. q \in GoodPixmap
  BY MigratesGood DEF Whole, Moves
<1>2. /\ PendingSound(q) /\ (Fresh(K, p) => Fresh(K, q)) /\ (Flushed(p) => Flushed(q))
  BY MovesKeeps DEF Whole
<1> QED
  BY <1>1, <1>2 DEF Whole, Moves, Migrates

(* A move draws nothing ...                                                *)
LEMMA MovesRenders ==
  ASSUME NEW K, NEW p, Whole(K, p), NEW q, Moves(K, p, q), NEW m,
         \A t \in Tiles : t \in K => m[t] = At(p, t)
  PROVE  Renders(K, K, p, q, m)
BY MovesWhole DEF Renders

(* ... and may come before a drawing.                                      *)
LEMMA MovesThenRenders ==
  ASSUME NEW K, NEW L, NEW p, Whole(K, p), NEW q, Moves(K, p, q), NEW r,
         NEW m, Renders(K, L, q, r, m)
  PROVE  Renders(K, L, p, r, m)
BY MovesWhole DEF Renders

(* xorg_flush changes no contents.                                         *)
LEMMA FlushRenders ==
  ASSUME NEW K, NoHazards, NEW p, Whole(K, p), NEW r \in Flush(p)
  PROVE  /\ Renders(K, K, p, r, Contents(p))
         /\ r.sync = p.sync /\ r.dirty_shadow \subseteq p.dirty_shadow
<1>0. /\ p \in PixmapRecord /\ p \in CorePixmap /\ Sound(K, p) /\ PendingOK(p)
      /\ PendingSound(p)
  BY DEF Whole, GoodPixmap, CorePixmap
<1>1. CASE ~p.scanout
  <2>1. r = p
    BY <1>1 DEF Flush
  <2> QED
    BY <1>0, <2>1, ContentsAt DEF Renders
<1>2. CASE p.scanout
  <2>1. PICK v \in PixmapRecord :
          /\ v = p \/ (OnlyHwPresents /\ Moves(K, p, v))
          /\ r.malloc = v.malloc /\ r.gmr = v.gmr /\ (r.hw <=> v.hw)
          /\ (r.damage <=> v.damage) /\ r.fronts = v.fronts /\ r.sync = v.sync
          /\ r.dirty_shadow = v.dirty_shadow /\ r.dirty_hw = v.dirty_hw
          /\ r.dirty_present = v.dirty_present /\ (r.scanout <=> v.scanout)
          /\ r.sw_bits = v.sw_bits /\ r.hw_bits = v.hw_bits
          /\ r.pending_update = {} /\ r.pending_present = {}
          /\ \A t \in Tiles : t \notin p.pending_update \cup p.pending_present =>
               r.fb_bits[t] = p.fb_bits[t]
    <3>1. \E v \in PixmapRecord :
           /\ v = p \/ (OnlyHwPresents /\ Moves(K, p, v))
           /\ r.malloc = v.malloc /\ r.gmr = v.gmr /\ (r.hw <=> v.hw)
           /\ (r.damage <=> v.damage) /\ r.fronts = v.fronts /\ r.sync = v.sync
           /\ r.dirty_shadow = v.dirty_shadow /\ r.dirty_hw = v.dirty_hw
           /\ r.dirty_present = v.dirty_present /\ (r.scanout <=> v.scanout)
           /\ r.sw_bits = v.sw_bits /\ r.hw_bits = v.hw_bits
           /\ r.pending_update = {} /\ r.pending_present = {}
           /\ \A t \in Tiles :
                \/ t \in p.pending_present /\ r.fb_bits[t] = v.hw_bits[t]
                \/ t \in p.pending_update /\ OnlyHwPresents
                   /\ (t \in r.unshown
                          \/ (t \in K => r.fb_bits[t] = At(v, t)))
                \/ t \in p.pending_update /\ ~OnlyHwPresents
                   /\ r.fb_bits[t] = v.sw_bits[t]
                \/ /\ t \notin p.pending_update
                   /\ t \notin p.pending_present \/ ~v.hw
                   /\ r.fb_bits[t] = p.fb_bits[t]
                   /\ t \in p.unshown \ p.pending_present => t \in r.unshown
      BY <1>0, <1>2, FlushSends
    <3> QED
      BY <3>1
  <2>2. Moves(K, p, v)
    BY <1>0, <2>1, MovesReflexive
  <2>3. /\ Whole(K, v) /\ v.fronts = p.fronts /\ v.sync = p.sync
        /\ v.dirty_present \subseteq p.dirty_present
        /\ v.dirty_shadow \subseteq p.dirty_shadow \/ ~p.hw
        /\ (p.hw => v.hw) /\ v.fb_bits = p.fb_bits
        /\ \A t \in Tiles : At(v, t) = At(p, t)
    BY <2>2, MovesWhole DEF Moves, Migrates
  <2>4. Repaints(v, r)
    <3>1. \A t \in Tiles : t \in v.dirty_present =>
            t \notin p.pending_update \cup p.pending_present
      BY <1>0, <2>3 DEF PendingOK
    <3> QED
      BY <2>1, <2>3, <3>1 DEF Repaints
  <2>5. Sound(K, r) /\ \A t \in Tiles : At(r, t) = At(p, t)
    BY <2>3, <2>4, RepaintsSound DEF Whole
  <2>6. r \in GoodPixmap /\ (r.scanout <=> p.scanout)
    BY FlushGood DEF Whole
  <2>7. PendingSound(r)
    BY <2>1 DEF PendingSound
  <2>8. ASSUME Fresh(K, p) PROVE Fresh(K, r)
    <3>1. ASSUME NEW t \in Tiles, t \in K
          PROVE  t \in r.unshown \/ r.fb_bits[t] = At(p, t)
      <4>1. TileSound(K, p, t)
        BY <1>0 DEF Sound
      <4>2. ASSUME t \in p.pending_present
            PROVE  /\ p.hw /\ t \notin p.dirty_shadow /\ t \notin p.dirty_present
                   /\ p.hw_bits[t] = At(p, t)
        <5>1. p.hw /\ t \notin p.dirty_shadow /\ t \notin p.dirty_present
          BY <1>0, <4>2 DEF PendingOK, PendingSound
        <5> QED
          BY <3>1, <4>1, <5>1 DEF TileSound, At
      <4>3. t \in p.pending_update => p.sw_bits[t] = At(p, t)
        BY <1>0 DEF PendingOK, At
      <4>4. \/ t \in p.pending_update \/ t \in p.pending_present
            \/ t \in p.unshown \/ p.fb_bits[t] = At(p, t)
        BY <1>2, <2>8, <3>1 DEF Fresh
      <4> QED
        BY <1>0, <1>2, <3>1, <4>2, <4>3, <4>4, FlushShows
    <3> QED
      BY <2>5, <3>1 DEF Fresh
  <2>9. r.sync = p.sync /\ r.dirty_shadow \subseteq p.dirty_shadow
    <3>1. CASE p.hw
      BY <2>1, <2>3, <3>1
    <3>2. CASE ~p.hw
      <4>1. p.dirty_shadow \cup p.dirty_present = Tiles
        <5>1. p.damage
          BY <1>0, <1>2 DEF CorePixmap, StorageOK
        <5> QED
          BY <1>0, <3>2, <5>1 DEF Sound, TileSound, PixmapRecord
      <4>2. v = p \/ p.dirty_present = {}
        BY <1>0, <2>1, OptionsAssumption DEF CorePixmap, DirtyOK
      <4>3. v.dirty_shadow \subseteq Tiles
        BY DEF PixmapRecord
      <4> QED
        BY <2>1, <2>3, <4>1, <4>2, <4>3
    <3> QED
      BY <3>1, <3>2
  <2>10. \A t \in Tiles : At(r, t) = Contents(p)[t]
    BY <1>0, <2>5, ContentsAt
  <2> QED
    BY <2>1, <2>3, <2>5, <2>6, <2>7, <2>8, <2>9, <2>10 DEF Renders, Whole
<1> QED
  BY <1>1, <1>2

(* Software drew b into R of storage that was current elsewhere: the       *)
(* damage leaves that as the contents, whatever flush it takes first.      *)
LEMMA DirtySwRenders ==
  ASSUME NEW K, NEW L, NoHazards, NEW p, Whole(K, p), HasStorage(p),
         NEW R \in SUBSET Tiles, \A t \in Tiles : t \in L => t \in K \/ t \in R,
         NEW b \in Image, \A t \in Tiles \ R : b[t] = p.sw_bits[t],
         NEW m,
         \A t \in Tiles : t \in L => m[t] = IF t \in R THEN b[t] ELSE At(p, t),
         NEW r \in DirtySw([p EXCEPT !.sw_bits = b], R)
  PROVE  Renders(K, L, p, r, m)
<1> DEFINE d == [p EXCEPT !.sw_bits = b]
           q == [d EXCEPT !.dirty_shadow = @ \cup R, !.dirty_hw = @ \ R]
           w == [q EXCEPT !.dirty_present = @ \ R]
<1>0. /\ p \in PixmapRecord /\ p \in CorePixmap /\ p \in GoodPixmap /\ Sound(K, p)
      /\ DirtyOK(p) /\ PendingOK(p) /\ PendingSound(p)
  BY DEF Whole, GoodPixmap, CorePixmap
<1>1. d \in GoodPixmap /\ (d.scanout <=> p.scanout)
  BY <1>0, BitsGood
<1>2. r \in GoodPixmap /\ (r.scanout <=> p.scanout)
  <2> HIDE DEF d
  <2> QED
    BY <1>1, DirtySwGood DEF d
<1>3. /\ d \in PixmapRecord
      /\ d.malloc = p.malloc /\ d.gmr = p.gmr /\ (d.hw <=> p.hw)
      /\ d.backing = p.backing
      /\ (d.damage <=> p.damage) /\ d.fronts = p.fronts /\ d.sync = p.sync
      /\ d.unshown = p.unshown
      /\ d.dirty_shadow = p.dirty_shadow /\ d.dirty_hw = p.dirty_hw
      /\ d.dirty_present = p.dirty_present /\ (d.scanout <=> p.scanout)
      /\ d.pending_update = p.pending_update /\ d.pending_present = p.pending_present
      /\ d.sw_bits = b /\ d.hw_bits = p.hw_bits /\ d.fb_bits = p.fb_bits
  BY <1>0 DEF PixmapRecord
<1>4. /\ q \in PixmapRecord
      /\ q.malloc = p.malloc /\ q.gmr = p.gmr /\ (q.hw <=> p.hw)
      /\ q.backing = p.backing
      /\ (q.damage <=> p.damage) /\ q.fronts = p.fronts /\ q.sync = p.sync
      /\ q.unshown = p.unshown
      /\ q.dirty_shadow = p.dirty_shadow \cup R /\ q.dirty_hw = p.dirty_hw \ R
      /\ q.dirty_present = p.dirty_present /\ (q.scanout <=> p.scanout)
      /\ q.pending_update = p.pending_update /\ q.pending_present = p.pending_present
      /\ q.sw_bits = b /\ q.hw_bits = p.hw_bits /\ q.fb_bits = p.fb_bits
  <2> HIDE DEF d
  <2> QED
    BY <1>3 DEF PixmapRecord
<1>5. \/ ~q.scanout /\ r = q
      \/ /\ q.scanout
         /\ \E x \in (IF q.pending_present \cap R # {} THEN Flush(q) ELSE {q}) :
              r = [x EXCEPT !.pending_update = @ \cup R, !.dirty_present = @ \ R]
  BY DEF DirtySw
<1> HIDE DEF q
<1>6. /\ w.malloc = p.malloc /\ w.gmr = p.gmr /\ (w.hw <=> p.hw)
      /\ (w.damage <=> p.damage) /\ w.fronts = p.fronts /\ w.sync = p.sync
      /\ w.dirty_shadow = p.dirty_shadow \cup R /\ w.dirty_hw = p.dirty_hw \ R
      /\ w.dirty_present = p.dirty_present \ R
      /\ w.sw_bits = b /\ w.hw_bits = p.hw_bits /\ w.fb_bits = p.fb_bits
  BY <1>4 DEF PixmapRecord
<1> HIDE DEF w
<1>7. Sound(L, w) /\ \A t \in Tiles : t \in L => At(w, t) = m[t]
  <2>1. HasStorage(w)
    BY <1>6 DEF HasStorage
  <2>2. ASSUME NEW t \in Tiles
        PROVE  TileSound(L, w, t) /\ (t \in L => At(w, t) = m[t])
    <3>1. TileSound(K, p, t)
      BY <1>0 DEF Sound
    <3>2. CASE t \in R
      <4>1. t \in w.dirty_shadow /\ t \notin w.dirty_hw /\ t \notin w.dirty_present
        BY <1>6, <3>2
      <4> QED
        BY <1>6, <2>1, <3>1, <3>2, <4>1 DEF TileSound, At
    <3>3. CASE t \notin R
      <4>1. /\ t \in w.dirty_shadow <=> t \in p.dirty_shadow
            /\ t \in w.dirty_hw <=> t \in p.dirty_hw
            /\ t \in w.dirty_present <=> t \in p.dirty_present
        BY <1>6, <3>3
      <4>2. w.sw_bits[t] = p.sw_bits[t]
        BY <1>6, <3>3
      <4>3. At(w, t) = At(p, t)
        BY <1>6, <4>1, <4>2 DEF At
      <4>4. t \in L => t \in K /\ m[t] = At(p, t)
        BY <3>3
      <4> QED
        BY <1>6, <2>1, <3>1, <4>1, <4>2, <4>3, <4>4 DEF TileSound
    <3> QED
      BY <3>2, <3>3
  <2>3. w.fronts > 0 \/ w.sync => w.hw
    BY <1>0, <1>6 DEF Sound
  <2> QED
    BY <2>2, <2>3 DEF Sound
<1>8. CASE ~q.scanout
  <2>1. r = q
    BY <1>5, <1>8
  <2>2. p.dirty_present = {} /\ p.pending_update = {} /\ p.pending_present = {}
    BY <1>0, <1>4, <1>8 DEF DirtyOK, PendingOK
  <2>3. Repaints(w, r)
    BY <1>4, <1>6, <2>1, <2>2 DEF Repaints
  <2>4. Sound(L, r) /\ \A t \in Tiles : t \in L => At(r, t) = m[t]
    BY <1>7, <2>3, RepaintsSound
  <2>5. PendingSound(r)
    BY <1>4, <2>1, <2>2 DEF PendingSound
  <2>6. Fresh(L, r)
    BY <1>8, <2>1 DEF Fresh
  <2> QED
    BY <1>2, <1>4, <2>1, <2>4, <2>5, <2>6 DEF Renders, Whole
<1>9. CASE q.scanout /\ q.pending_present \cap R = {}
  <2>1. r = [q EXCEPT !.pending_update = @ \cup R, !.dirty_present = @ \ R]
    BY <1>5, <1>9
  <2>2. /\ r.malloc = p.malloc /\ r.gmr = p.gmr /\ (r.hw <=> p.hw)
        /\ (r.damage <=> p.damage) /\ r.fronts = p.fronts /\ r.sync = p.sync
        /\ r.unshown = p.unshown
        /\ r.dirty_shadow = p.dirty_shadow \cup R /\ r.dirty_hw = p.dirty_hw \ R
        /\ r.dirty_present = p.dirty_present \ R
        /\ r.pending_update = p.pending_update \cup R
        /\ r.pending_present = p.pending_present
        /\ r.sw_bits = b /\ r.hw_bits = p.hw_bits /\ r.fb_bits = p.fb_bits
    BY <1>4, <2>1 DEF PixmapRecord
  <2>3. Repaints(w, r)
    BY <1>6, <2>2 DEF Repaints
  <2>4. Sound(L, r) /\ \A t \in Tiles : t \in L => At(r, t) = m[t]
    BY <1>7, <2>3, RepaintsSound
  <2>5. PendingSound(r)
    BY <1>0, <1>4, <1>9, <2>2 DEF PendingSound
  <2>6. ASSUME Fresh(K, p) PROVE Fresh(L, r)
    <3>1. ASSUME NEW t \in Tiles, t \in L
          PROVE  \/ t \in r.pending_update \/ t \in r.pending_present
                 \/ t \in r.unshown \/ r.fb_bits[t] = At(r, t)
      <4>1. CASE t \in R
        BY <2>2, <4>1
      <4>2. CASE t \notin R
        <5>1. t \in K /\ m[t] = At(p, t) /\ At(r, t) = m[t]
          BY <2>4, <3>1, <4>2
        <5>2. \/ t \in p.pending_update \/ t \in p.pending_present
              \/ t \in p.unshown \/ p.fb_bits[t] = At(p, t)
          BY <1>4, <1>9, <2>6, <5>1 DEF Fresh
        <5>3. r.fb_bits[t] = p.fb_bits[t]
          BY <2>2, <4>2
        <5> QED
          BY <2>2, <5>1, <5>2, <5>3
      <4> QED
        BY <4>1, <4>2
    <3> QED
      BY <3>1 DEF Fresh
  <2> QED
    BY <1>2, <2>2, <2>4, <2>5, <2>6 DEF Renders, Whole
<1>10. CASE q.scanout /\ q.pending_present \cap R # {}
  <2>1. PICK x \in Flush(q) :
          r = [x EXCEPT !.pending_update = @ \cup R, !.dirty_present = @ \ R]
    BY <1>5, <1>10
  <2>2. ASSUME OnlyHwPresents
        PROVE  /\ q \in CorePixmap /\ Sound(L, q) /\ p.dirty_present = {}
               /\ \A t \in Tiles : t \in L => At(q, t) = m[t]
    <3>1. p.dirty_present = {}
      BY <1>0, <2>2, OptionsAssumption DEF DirtyOK
    <3>2. Repaints(w, q)
      BY <1>4, <1>6, <3>1 DEF Repaints
    <3>3. StorageOK(q) /\ DirtyOK(q)
      <4>1. StorageOK(p)
        BY <1>0 DEF CorePixmap
      <4>2. StorageOK(q)
        BY <1>0, <1>4, <4>1 DEF StorageOK, PixmapRecord
      <4>3. DirtyOK(q)
        BY <1>0, <1>4, <3>1 DEF DirtyOK
      <4> QED
        BY <4>2, <4>3
    <3> QED
      BY <1>4, <1>7, <3>1, <3>2, <3>3, RepaintsSound DEF CorePixmap
  <2>3. PICK v \in PixmapRecord :
          /\ v = q \/ (OnlyHwPresents /\ Moves(L, q, v))
          /\ x.malloc = v.malloc /\ x.gmr = v.gmr /\ (x.hw <=> v.hw)
          /\ (x.damage <=> v.damage) /\ x.fronts = v.fronts /\ x.sync = v.sync
          /\ x.dirty_shadow = v.dirty_shadow /\ x.dirty_hw = v.dirty_hw
          /\ x.dirty_present = v.dirty_present /\ (x.scanout <=> v.scanout)
          /\ x.sw_bits = v.sw_bits /\ x.hw_bits = v.hw_bits
          /\ x.pending_update = {} /\ x.pending_present = {}
          /\ \A t \in Tiles : t \notin q.pending_update \cup q.pending_present =>
               x.fb_bits[t] = q.fb_bits[t]
    <3>1. \E v \in PixmapRecord :
           /\ v = q \/ (OnlyHwPresents /\ Moves(L, q, v))
           /\ x.malloc = v.malloc /\ x.gmr = v.gmr /\ (x.hw <=> v.hw)
           /\ (x.damage <=> v.damage) /\ x.fronts = v.fronts /\ x.sync = v.sync
           /\ x.dirty_shadow = v.dirty_shadow /\ x.dirty_hw = v.dirty_hw
           /\ x.dirty_present = v.dirty_present /\ (x.scanout <=> v.scanout)
           /\ x.sw_bits = v.sw_bits /\ x.hw_bits = v.hw_bits
           /\ x.pending_update = {} /\ x.pending_present = {}
           /\ \A t \in Tiles :
                \/ t \in q.pending_present /\ x.fb_bits[t] = v.hw_bits[t]
                \/ t \in q.pending_update /\ OnlyHwPresents
                   /\ (t \in x.unshown
                          \/ (t \in L => x.fb_bits[t] = At(v, t)))
                \/ t \in q.pending_update /\ ~OnlyHwPresents
                   /\ x.fb_bits[t] = v.sw_bits[t]
                \/ /\ t \notin q.pending_update
                   /\ t \notin q.pending_present \/ ~v.hw
                   /\ x.fb_bits[t] = q.fb_bits[t]
                   /\ t \in q.unshown \ q.pending_present => t \in x.unshown
      BY <1>4, <1>10, <2>1, <2>2, FlushSends
    <3> QED
      BY <3>1
  <2>4. x \in PixmapRecord
    <3>1. StorageOK(q)
      <4>1. StorageOK(p)
        BY <1>0 DEF CorePixmap
      <4> QED
        BY <1>0, <1>4, <4>1 DEF StorageOK, PixmapRecord
    <3>2. OnlyHwPresents => DirtyOK(q)
      BY <2>2 DEF CorePixmap
    <3> QED
      BY <1>4, <1>10, <2>1, <3>1, <3>2, FlushSettles
  <2>5. /\ r.malloc = x.malloc /\ r.gmr = x.gmr /\ (r.hw <=> x.hw)
        /\ (r.damage <=> x.damage) /\ r.fronts = x.fronts /\ r.sync = x.sync
        /\ r.unshown = x.unshown
        /\ r.dirty_shadow = x.dirty_shadow /\ r.dirty_hw = x.dirty_hw
        /\ r.dirty_present = x.dirty_present \ R
        /\ r.pending_update = R /\ r.pending_present = {}
        /\ r.sw_bits = x.sw_bits /\ r.hw_bits = x.hw_bits /\ r.fb_bits = x.fb_bits
    BY <2>1, <2>3, <2>4 DEF PixmapRecord
  <2>6. /\ Sound(L, r) /\ (\A t \in Tiles : t \in L => At(r, t) = m[t])
        /\ r.fronts = p.fronts /\ (p.hw => r.hw)
    <3>1. CASE v = q
      <4>1. \A t \in Tiles : t \in p.dirty_present =>
              t \notin q.pending_update \cup q.pending_present
        BY <1>0, <1>4 DEF PendingOK
      <4>2. Repaints(w, r)
        BY <1>4, <1>6, <2>3, <2>5, <3>1, <4>1 DEF Repaints
      <4> QED
        BY <1>4, <1>7, <2>3, <2>5, <3>1, <4>2, RepaintsSound
    <3>2. CASE OnlyHwPresents /\ Moves(L, q, v)
      <4>1. /\ Sound(L, v) /\ v.dirty_present = {}
            /\ \A t \in Tiles : t \in L => At(v, t) = m[t]
        BY <1>4, <2>2, <3>2 DEF Moves, Migrates
      <4>2. Repaints(v, r)
        BY <2>3, <2>5, <4>1 DEF Repaints
      <4>3. v.fronts = p.fronts /\ (p.hw => v.hw)
        BY <1>4, <3>2 DEF Moves, Migrates
      <4> QED
        BY <2>3, <2>5, <4>1, <4>2, <4>3, RepaintsSound
    <3> QED
      BY <2>3, <3>1, <3>2
  <2>7. PendingSound(r)
    BY <2>5 DEF PendingSound
  <2>8. ASSUME Fresh(K, p) PROVE Fresh(L, r)
    <3>1. ASSUME NEW t \in Tiles, t \in L, t \notin R
          PROVE  t \in x.unshown \/ x.fb_bits[t] = At(p, t)
      <4>1. TileSound(K, p, t) /\ t \in K /\ m[t] = At(p, t)
        BY <1>0, <3>1 DEF Sound
      <4>2. ASSUME t \in q.pending_present
            PROVE  /\ q.hw /\ t \notin q.dirty_shadow /\ t \notin q.dirty_present
                   /\ q.hw_bits[t] = At(p, t)
        <5>1. p.hw /\ t \notin p.dirty_shadow /\ t \notin p.dirty_present
          BY <1>0, <1>4, <4>2 DEF PendingOK, PendingSound
        <5> QED
          BY <1>4, <3>1, <4>1, <5>1 DEF TileSound, At
      <4>3. t \in q.pending_update => q.sw_bits[t] = At(p, t)
        BY <1>0, <1>4, <3>1 DEF PendingOK, At
      <4>4. \/ t \in q.pending_update \/ t \in q.pending_present
            \/ t \in q.unshown \/ q.fb_bits[t] = At(p, t)
        BY <1>4, <1>10, <2>8, <4>1 DEF Fresh
      <4>5. OnlyHwPresents => At(q, t) = At(p, t)
        BY <2>2, <3>1, <4>1
      <4> QED
        BY <1>4, <1>10, <2>1, <2>2, <3>1, <4>2, <4>3, <4>4, <4>5, FlushShows
    <3>2. ASSUME NEW t \in Tiles, t \in L
          PROVE  t \in R \/ t \in r.unshown \/ r.fb_bits[t] = At(r, t)
      <4>1. ASSUME t \notin R PROVE At(r, t) = At(p, t)
        BY <2>6, <3>2, <4>1
      <4> QED
        BY <2>5, <3>1, <3>2, <4>1
    <3> QED
      BY <2>5, <3>2 DEF Fresh
  <2> QED
    BY <1>2, <2>6, <2>7, <2>8 DEF Renders, Whole
<1> QED
  BY <1>8, <1>9, <1>10

(* The device drew b into R of a surface: the damage leaves that as the    *)
(* contents, whatever flush it takes first.                                *)
LEMMA DirtyHwRenders ==
  ASSUME NEW K, NEW L, NoHazards, NEW p, Whole(K, p), p.hw,
         NEW R \in SUBSET Tiles, \A t \in Tiles : t \in L => t \in K \/ t \in R,
         NEW b \in Image, \A t \in Tiles \ R : b[t] = p.hw_bits[t],
         NEW m,
         \A t \in Tiles : t \in L => m[t] = IF t \in R THEN b[t] ELSE At(p, t),
         NEW r \in DirtyHw([p EXCEPT !.hw_bits = b], R)
  PROVE  Renders(K, L, p, r, m)
<1> DEFINE d == [p EXCEPT !.hw_bits = b]
           q == [d EXCEPT !.dirty_hw = @ \cup R, !.dirty_shadow = @ \ R]
           w == [q EXCEPT !.dirty_present = @ \ R]
<1>0. /\ p \in PixmapRecord /\ p \in CorePixmap /\ p \in GoodPixmap /\ Sound(K, p)
      /\ DirtyOK(p) /\ PendingOK(p) /\ PendingSound(p)
  BY DEF Whole, GoodPixmap, CorePixmap
<1>1. d \in GoodPixmap /\ (d.scanout <=> p.scanout)
  BY <1>0, BitsGood
<1>2. r \in GoodPixmap /\ (r.scanout <=> p.scanout)
  <2> HIDE DEF d
  <2> QED
    BY <1>1, DirtyHwGood DEF d
<1>3. /\ d \in PixmapRecord
      /\ d.malloc = p.malloc /\ d.gmr = p.gmr /\ (d.hw <=> p.hw)
      /\ d.backing = p.backing
      /\ (d.damage <=> p.damage) /\ d.fronts = p.fronts /\ d.sync = p.sync
      /\ d.unshown = p.unshown
      /\ d.dirty_shadow = p.dirty_shadow /\ d.dirty_hw = p.dirty_hw
      /\ d.dirty_present = p.dirty_present /\ (d.scanout <=> p.scanout)
      /\ d.pending_update = p.pending_update /\ d.pending_present = p.pending_present
      /\ d.sw_bits = p.sw_bits /\ d.hw_bits = b /\ d.fb_bits = p.fb_bits
  BY <1>0 DEF PixmapRecord
<1>4. /\ q \in PixmapRecord
      /\ q.malloc = p.malloc /\ q.gmr = p.gmr /\ (q.hw <=> p.hw)
      /\ q.backing = p.backing
      /\ (q.damage <=> p.damage) /\ q.fronts = p.fronts /\ q.sync = p.sync
      /\ q.unshown = p.unshown
      /\ q.dirty_shadow = p.dirty_shadow \ R /\ q.dirty_hw = p.dirty_hw \cup R
      /\ q.dirty_present = p.dirty_present /\ (q.scanout <=> p.scanout)
      /\ q.pending_update = p.pending_update /\ q.pending_present = p.pending_present
      /\ q.sw_bits = p.sw_bits /\ q.hw_bits = b /\ q.fb_bits = p.fb_bits
  <2> HIDE DEF d
  <2> QED
    BY <1>3 DEF PixmapRecord
<1>5. \/ ~q.scanout /\ r = q
      \/ /\ q.scanout
         /\ \E x \in (IF q.pending_update \cap R # {} THEN Flush(q) ELSE {q}) :
              r = [x EXCEPT !.pending_present = @ \cup R, !.dirty_present = @ \ R]
  BY DEF DirtyHw
<1> HIDE DEF q
<1>6. /\ w.malloc = p.malloc /\ w.gmr = p.gmr /\ (w.hw <=> p.hw)
      /\ (w.damage <=> p.damage) /\ w.fronts = p.fronts /\ w.sync = p.sync
      /\ w.dirty_shadow = p.dirty_shadow \ R /\ w.dirty_hw = p.dirty_hw \cup R
      /\ w.dirty_present = p.dirty_present \ R
      /\ w.sw_bits = p.sw_bits /\ w.hw_bits = b /\ w.fb_bits = p.fb_bits
  BY <1>4 DEF PixmapRecord
<1> HIDE DEF w
<1>7. Sound(L, w) /\ \A t \in Tiles : t \in L => At(w, t) = m[t]
  <2>1. HasStorage(w) <=> HasStorage(p)
    BY <1>6 DEF HasStorage
  <2>2. ASSUME NEW t \in Tiles
        PROVE  TileSound(L, w, t) /\ (t \in L => At(w, t) = m[t])
    <3>1. TileSound(K, p, t)
      BY <1>0 DEF Sound
    <3>2. CASE t \in R
      <4>1. t \in w.dirty_hw /\ t \notin w.dirty_shadow /\ t \notin w.dirty_present
        BY <1>6, <3>2
      <4> QED
        BY <1>6, <2>1, <3>1, <3>2, <4>1 DEF TileSound, At
    <3>3. CASE t \notin R
      <4>1. /\ t \in w.dirty_shadow <=> t \in p.dirty_shadow
            /\ t \in w.dirty_hw <=> t \in p.dirty_hw
            /\ t \in w.dirty_present <=> t \in p.dirty_present
        BY <1>6, <3>3
      <4>2. w.hw_bits[t] = p.hw_bits[t]
        BY <1>6, <3>3
      <4>3. At(w, t) = At(p, t)
        BY <1>6, <4>1, <4>2 DEF At
      <4>4. t \in L => t \in K /\ m[t] = At(p, t)
        BY <3>3
      <4> QED
        BY <1>6, <2>1, <3>1, <4>1, <4>2, <4>3, <4>4 DEF TileSound
    <3> QED
      BY <3>2, <3>3
  <2>3. w.fronts > 0 \/ w.sync => w.hw
    BY <1>0, <1>6 DEF Sound
  <2> QED
    BY <2>2, <2>3 DEF Sound
<1>8. CASE ~q.scanout
  <2>1. r = q
    BY <1>5, <1>8
  <2>2. p.dirty_present = {} /\ p.pending_update = {} /\ p.pending_present = {}
    BY <1>0, <1>4, <1>8 DEF DirtyOK, PendingOK
  <2>3. Repaints(w, r)
    BY <1>4, <1>6, <2>1, <2>2 DEF Repaints
  <2>4. Sound(L, r) /\ \A t \in Tiles : t \in L => At(r, t) = m[t]
    BY <1>7, <2>3, RepaintsSound
  <2>5. PendingSound(r)
    BY <1>4, <2>1, <2>2 DEF PendingSound
  <2>6. Fresh(L, r)
    BY <1>8, <2>1 DEF Fresh
  <2> QED
    BY <1>2, <1>4, <2>1, <2>4, <2>5, <2>6 DEF Renders, Whole
<1>9. CASE q.scanout /\ q.pending_update \cap R = {}
  <2>1. r = [q EXCEPT !.pending_present = @ \cup R, !.dirty_present = @ \ R]
    BY <1>5, <1>9
  <2>2. /\ r.malloc = p.malloc /\ r.gmr = p.gmr /\ (r.hw <=> p.hw)
        /\ (r.damage <=> p.damage) /\ r.fronts = p.fronts /\ r.sync = p.sync
        /\ r.unshown = p.unshown
        /\ r.dirty_shadow = p.dirty_shadow \ R /\ r.dirty_hw = p.dirty_hw \cup R
        /\ r.dirty_present = p.dirty_present \ R
        /\ r.pending_update = p.pending_update
        /\ r.pending_present = p.pending_present \cup R
        /\ r.sw_bits = p.sw_bits /\ r.hw_bits = b /\ r.fb_bits = p.fb_bits
    BY <1>4, <2>1 DEF PixmapRecord
  <2>3. Repaints(w, r)
    BY <1>6, <2>2 DEF Repaints
  <2>4. Sound(L, r) /\ \A t \in Tiles : t \in L => At(r, t) = m[t]
    BY <1>7, <2>3, RepaintsSound
  <2>5. PendingSound(r)
    BY <1>0, <2>2 DEF PendingSound
  <2>6. ASSUME Fresh(K, p) PROVE Fresh(L, r)
    <3>1. ASSUME NEW t \in Tiles, t \in L
          PROVE  \/ t \in r.pending_update \/ t \in r.pending_present
                 \/ t \in r.unshown \/ r.fb_bits[t] = At(r, t)
      <4>1. CASE t \in R
        BY <2>2, <4>1
      <4>2. CASE t \notin R
        <5>1. t \in K /\ m[t] = At(p, t) /\ At(r, t) = m[t]
          BY <2>4, <3>1, <4>2
        <5>2. \/ t \in p.pending_update \/ t \in p.pending_present
              \/ t \in p.unshown \/ p.fb_bits[t] = At(p, t)
          BY <1>4, <1>9, <2>6, <5>1 DEF Fresh
        <5>3. r.fb_bits[t] = p.fb_bits[t]
          BY <2>2, <4>2
        <5> QED
          BY <2>2, <5>1, <5>2, <5>3
      <4> QED
        BY <4>1, <4>2
    <3> QED
      BY <3>1 DEF Fresh
  <2> QED
    BY <1>2, <2>2, <2>4, <2>5, <2>6 DEF Renders, Whole
<1>10. CASE q.scanout /\ q.pending_update \cap R # {}
  <2>1. PICK x \in Flush(q) :
          r = [x EXCEPT !.pending_present = @ \cup R, !.dirty_present = @ \ R]
    BY <1>5, <1>10
  <2>a. StorageOK(q) /\ DirtyOK(q)
    <3>1. StorageOK(p) /\ DirtyOK(p)
      BY <1>0 DEF CorePixmap
    <3>2. StorageOK(q)
      BY <1>0, <1>4, <3>1 DEF StorageOK, PixmapRecord
    <3>3. q.dirty_shadow \cap (q.dirty_hw \cup q.dirty_present) = {}
      BY <1>4, <3>1 DEF DirtyOK
    <3>4. DirtyOK(q)
      BY <1>4, <3>1, <3>3 DEF DirtyOK
    <3> QED
      BY <3>2, <3>4
  <2>2. ASSUME OnlyHwPresents
        PROVE  /\ q \in CorePixmap /\ Sound(L, q) /\ p.dirty_present = {}
               /\ \A t \in Tiles : t \in L => At(q, t) = m[t]
    <3>1. p.dirty_present = {}
      BY <1>0, <2>2, OptionsAssumption DEF DirtyOK
    <3>2. Repaints(w, q)
      BY <1>4, <1>6, <3>1 DEF Repaints
    <3> QED
      BY <1>4, <1>7, <2>a, <3>1, <3>2, RepaintsSound DEF CorePixmap
  <2>3. PICK v \in PixmapRecord :
          /\ v = q \/ (OnlyHwPresents /\ Moves(L, q, v))
          /\ x.malloc = v.malloc /\ x.gmr = v.gmr /\ (x.hw <=> v.hw)
          /\ (x.damage <=> v.damage) /\ x.fronts = v.fronts /\ x.sync = v.sync
          /\ x.dirty_shadow = v.dirty_shadow /\ x.dirty_hw = v.dirty_hw
          /\ x.dirty_present = v.dirty_present /\ (x.scanout <=> v.scanout)
          /\ x.sw_bits = v.sw_bits /\ x.hw_bits = v.hw_bits
          /\ x.pending_update = {} /\ x.pending_present = {}
          /\ \A t \in Tiles : t \notin q.pending_update \cup q.pending_present =>
               x.fb_bits[t] = q.fb_bits[t]
    <3>1. \E v \in PixmapRecord :
           /\ v = q \/ (OnlyHwPresents /\ Moves(L, q, v))
           /\ x.malloc = v.malloc /\ x.gmr = v.gmr /\ (x.hw <=> v.hw)
           /\ (x.damage <=> v.damage) /\ x.fronts = v.fronts /\ x.sync = v.sync
           /\ x.dirty_shadow = v.dirty_shadow /\ x.dirty_hw = v.dirty_hw
           /\ x.dirty_present = v.dirty_present /\ (x.scanout <=> v.scanout)
           /\ x.sw_bits = v.sw_bits /\ x.hw_bits = v.hw_bits
           /\ x.pending_update = {} /\ x.pending_present = {}
           /\ \A t \in Tiles :
                \/ t \in q.pending_present /\ x.fb_bits[t] = v.hw_bits[t]
                \/ t \in q.pending_update /\ OnlyHwPresents
                   /\ (t \in x.unshown
                          \/ (t \in L => x.fb_bits[t] = At(v, t)))
                \/ t \in q.pending_update /\ ~OnlyHwPresents
                   /\ x.fb_bits[t] = v.sw_bits[t]
                \/ /\ t \notin q.pending_update
                   /\ t \notin q.pending_present \/ ~v.hw
                   /\ x.fb_bits[t] = q.fb_bits[t]
                   /\ t \in q.unshown \ q.pending_present => t \in x.unshown
      BY <1>4, <1>10, <2>1, <2>2, FlushSends
    <3> QED
      BY <3>1
  <2>4. x \in PixmapRecord
    BY <1>4, <1>10, <2>1, <2>a, FlushSettles
  <2>5. /\ r.malloc = x.malloc /\ r.gmr = x.gmr /\ (r.hw <=> x.hw)
        /\ (r.damage <=> x.damage) /\ r.fronts = x.fronts /\ r.sync = x.sync
        /\ r.unshown = x.unshown
        /\ r.dirty_shadow = x.dirty_shadow /\ r.dirty_hw = x.dirty_hw
        /\ r.dirty_present = x.dirty_present \ R
        /\ r.pending_update = {} /\ r.pending_present = R
        /\ r.sw_bits = x.sw_bits /\ r.hw_bits = x.hw_bits /\ r.fb_bits = x.fb_bits
    BY <2>1, <2>3, <2>4 DEF PixmapRecord
  <2>6. /\ Sound(L, r) /\ (\A t \in Tiles : t \in L => At(r, t) = m[t])
        /\ r.fronts = p.fronts /\ r.hw
        /\ r.dirty_shadow \cap R = {}
    <3>1. CASE v = q
      <4>1. \A t \in Tiles : t \in p.dirty_present =>
              t \notin q.pending_update \cup q.pending_present
        BY <1>0, <1>4 DEF PendingOK
      <4>2. Repaints(w, r)
        BY <1>4, <1>6, <2>3, <2>5, <3>1, <4>1 DEF Repaints
      <4>3. Sound(L, r) /\ (\A t \in Tiles : t \in L => At(r, t) = m[t])
        BY <1>7, <4>2, RepaintsSound
      <4> QED
        BY <1>4, <2>3, <2>5, <3>1, <4>3
    <3>2. CASE OnlyHwPresents /\ Moves(L, q, v)
      <4>1. /\ Sound(L, v) /\ v.dirty_present = {}
            /\ \A t \in Tiles : t \in L => At(v, t) = m[t]
        BY <1>4, <2>2, <3>2 DEF Moves, Migrates
      <4>2. Repaints(v, r)
        BY <2>3, <2>5, <4>1 DEF Repaints
      <4>3. v.fronts = p.fronts /\ v.hw /\ v.dirty_shadow \cap R = {}
        BY <1>4, <3>2 DEF Moves, Migrates
      <4> QED
        BY <2>3, <2>5, <4>1, <4>2, <4>3, RepaintsSound
    <3> QED
      BY <2>3, <3>1, <3>2
  <2>7. PendingSound(r)
    BY <2>5, <2>6 DEF PendingSound
  <2>8. ASSUME Fresh(K, p) PROVE Fresh(L, r)
    <3>1. ASSUME NEW t \in Tiles, t \in L, t \notin R
          PROVE  t \in x.unshown \/ x.fb_bits[t] = At(p, t)
      <4>1. TileSound(K, p, t) /\ t \in K /\ m[t] = At(p, t)
        BY <1>0, <3>1 DEF Sound
      <4>2. ASSUME t \in q.pending_present
            PROVE  /\ q.hw /\ t \notin q.dirty_shadow /\ t \notin q.dirty_present
                   /\ q.hw_bits[t] = At(p, t)
        <5>1. p.hw /\ t \notin p.dirty_shadow /\ t \notin p.dirty_present
          BY <1>0, <1>4, <4>2 DEF PendingOK, PendingSound
        <5> QED
          BY <1>4, <3>1, <4>1, <5>1 DEF TileSound, At
      <4>3. t \in q.pending_update => q.sw_bits[t] = At(p, t)
        BY <1>0, <1>4, <3>1 DEF PendingOK, At
      <4>4. \/ t \in q.pending_update \/ t \in q.pending_present
            \/ t \in q.unshown \/ q.fb_bits[t] = At(p, t)
        BY <1>4, <1>10, <2>8, <4>1 DEF Fresh
      <4>5. OnlyHwPresents => At(q, t) = At(p, t)
        BY <2>2, <3>1, <4>1
      <4> QED
        BY <1>4, <1>10, <2>1, <2>2, <3>1, <4>2, <4>3, <4>4, <4>5, FlushShows
    <3>2. ASSUME NEW t \in Tiles, t \in L
          PROVE  t \in R \/ t \in r.unshown \/ r.fb_bits[t] = At(r, t)
      <4>1. ASSUME t \notin R PROVE At(r, t) = At(p, t)
        BY <2>6, <3>2, <4>1
      <4> QED
        BY <2>5, <3>1, <3>2, <4>1
    <3> QED
      BY <2>5, <3>2 DEF Fresh
  <2> QED
    BY <1>2, <2>6, <2>7, <2>8 DEF Renders, Whole
<1> QED
  BY <1>8, <1>9, <1>10

(* A present drew b into R of a framebuffer nothing waits for.             *)
LEMMA DirtyPresentRenders ==
  ASSUME NEW K, NEW L, NEW p, Whole(K, p), TracksPresents(p),
         NEW R \in SUBSET Tiles, \A t \in Tiles : t \in L => t \in K \/ t \in R,
         p.pending_update = {}, p.pending_present = {},
         NEW b \in Image, \A t \in Tiles \ R : b[t] = p.fb_bits[t],
         NEW m,
         \A t \in Tiles : t \in L => m[t] = IF t \in R THEN b[t] ELSE At(p, t)
  PROVE  Renders(K, L, p, DirtyPresent([p EXCEPT !.fb_bits = b], R), m)
<1> DEFINE d == [p EXCEPT !.fb_bits = b]
           r == DirtyPresent(d, R)
<1>0. p \in PixmapRecord /\ p \in GoodPixmap /\ Sound(K, p)
  BY DEF Whole, GoodPixmap, CorePixmap
<1>1. /\ d \in GoodPixmap /\ (d.scanout <=> p.scanout)
      /\ d.pending_update = {} /\ d.pending_present = {}
  BY <1>0, BitsGood
<1>2. /\ d \in PixmapRecord
      /\ d.malloc = p.malloc /\ d.gmr = p.gmr /\ (d.hw <=> p.hw)
      /\ (d.damage <=> p.damage) /\ d.fronts = p.fronts /\ d.sync = p.sync
      /\ d.unshown = p.unshown
      /\ d.dirty_shadow = p.dirty_shadow /\ d.dirty_hw = p.dirty_hw
      /\ d.dirty_present = p.dirty_present /\ (d.scanout <=> p.scanout)
      /\ d.sw_bits = p.sw_bits /\ d.hw_bits = p.hw_bits /\ d.fb_bits = b
  BY <1>0 DEF PixmapRecord
<1> HIDE DEF d
<1>3. r \in GoodPixmap /\ r.scanout /\ p.scanout
  BY <1>1, DirtyPresentGood DEF TracksPresents
<1>4. /\ r.malloc = p.malloc /\ r.gmr = p.gmr /\ (r.hw <=> p.hw)
      /\ (r.damage <=> p.damage) /\ r.fronts = p.fronts /\ r.sync = p.sync
      /\ r.unshown = p.unshown
      /\ r.dirty_shadow = p.dirty_shadow \ R /\ r.dirty_hw = p.dirty_hw \cup R
      /\ r.dirty_present = p.dirty_present \cup R
      /\ r.pending_update = {} /\ r.pending_present = {}
      /\ r.sw_bits = p.sw_bits /\ r.hw_bits = p.hw_bits /\ r.fb_bits = b
  BY <1>1, <1>2 DEF DirtyPresent, PixmapRecord
<1> HIDE DEF r
<1>5. HasStorage(r) <=> HasStorage(p)
  BY <1>4 DEF HasStorage
<1>6. ASSUME NEW t \in Tiles PROVE TileSound(L, r, t) /\ (t \in L => At(r, t) = m[t])
  <2>1. TileSound(K, p, t)
    BY <1>0 DEF Sound
  <2>2. CASE t \in R
    <3>1. t \in r.dirty_hw /\ t \notin r.dirty_shadow /\ t \in r.dirty_present
      BY <1>4, <2>2
    <3>2. At(r, t) = r.fb_bits[t] /\ (t \in L => m[t] = b[t])
      BY <2>2, <3>1 DEF At
    <3> QED
      BY <1>4, <1>5, <2>1, <3>1, <3>2 DEF TileSound
  <2>3. CASE t \notin R
    <3>1. /\ t \in r.dirty_shadow <=> t \in p.dirty_shadow
          /\ t \in r.dirty_hw <=> t \in p.dirty_hw
          /\ t \in r.dirty_present <=> t \in p.dirty_present
      BY <1>4, <2>3
    <3>2. r.fb_bits[t] = p.fb_bits[t]
      BY <1>4, <2>3
    <3>3. At(r, t) = At(p, t)
      BY <1>4, <3>1, <3>2 DEF At
    <3>4. t \in L => t \in K /\ m[t] = At(p, t)
      BY <2>3
    <3> QED
      BY <1>4, <1>5, <2>1, <3>1, <3>2, <3>3, <3>4 DEF TileSound
  <2> QED
    BY <2>2, <2>3
<1>7. Sound(L, r)
  BY <1>0, <1>4, <1>6 DEF Sound
<1>8. PendingSound(r)
  BY <1>4 DEF PendingSound
<1>9. ASSUME Fresh(K, p) PROVE Fresh(L, r)
  <2>1. ASSUME NEW t \in Tiles, t \in L
        PROVE  t \in r.unshown \/ r.fb_bits[t] = m[t]
    <3>1. CASE t \in R
      BY <1>4, <2>1, <3>1
    <3>2. CASE t \notin R
      <4>1. t \in K /\ m[t] = At(p, t)
        BY <2>1, <3>2
      <4>2. t \in p.unshown \/ p.fb_bits[t] = At(p, t)
        BY <1>3, <1>9, <4>1 DEF Fresh
      <4> QED
        BY <1>4, <3>2, <4>1, <4>2
    <3> QED
      BY <3>1, <3>2
  <2> QED
    BY <1>6, <2>1 DEF Fresh
<1>10. Renders(K, L, p, r, m)
  BY <1>3, <1>4, <1>6, <1>7, <1>8, <1>9 DEF Renders, Whole
<1> QED
  BY <1>10 DEF r, d

(* q is p to whoever draws on it or shares its surface.                    *)
SameContents(K, p, q) ==
  /\ Whole(K, q) /\ q.fronts = p.fronts
  /\ p.hw => q.hw
  /\ Flushed(p) => Flushed(q)
  /\ \A t \in Tiles : At(q, t) = At(p, t)

(* A pixmap that gets its framebuffer keeps its contents ...               *)
LEMMA ScanoutRefKeeps ==
  ASSUME NEW K, NoHazards, NEW p, Whole(K, p), ~p.scanout,
         NEW o \in ScanoutRef(p)
  PROVE  SameContents(K, p, o.p)
<1>1. PICK a \in (IF OnlyHwPresents THEN HwAccelValidate(p, Tiles) ELSE CreateGmr(p)) :
        o \in IF a.ok THEN {Failed(RemoveDamage(a.p)),
                            Done([a.p EXCEPT !.scanout = TRUE, !.fb_bits = Blank])}
                      ELSE {a}
  BY DEF ScanoutRef
<1>2. p \in CorePixmap /\ Sound(K, p)
  BY DEF Whole, GoodPixmap
<1>3. Moves(K, p, a.p) /\ (a.ok => a.p.hw \/ a.p.gmr)
  <2>1. CASE OnlyHwPresents
    BY <1>1, <1>2, <2>1, HwAccelValidateMoves DEF SurfaceCurrent
  <2>2. CASE ~OnlyHwPresents
    BY <1>1, <1>2, <2>2, CreateGmrMoves, CreateGmrMigrates
  <2> QED
    BY <2>1, <2>2
<1>4. /\ Whole(K, a.p) /\ ~a.p.scanout /\ a.p.fronts = p.fronts /\ (p.hw => a.p.hw)
      /\ Flushed(p) => Flushed(a.p)
      /\ \A t \in Tiles : At(a.p, t) = At(p, t)
  BY <1>3, MovesWhole
<1>5. CASE o.p = a.p
  BY <1>4, <1>5 DEF SameContents
<1>6. CASE a.ok /\ o = Failed(RemoveDamage(a.p))
  <2>1. o.p = a.p
    BY <1>3, <1>6, FailedIs DEF RemoveDamage
  <2> QED
    BY <1>5, <2>1
<1>7. CASE a.ok /\ o = Done([a.p EXCEPT !.scanout = TRUE, !.fb_bits = Blank])
  <2> DEFINE v == a.p
             q == [v EXCEPT !.scanout = TRUE, !.fb_bits = Blank]
  <2>1. o.ok /\ o.p = q
    BY <1>7, DoneIs
  <2>2. /\ v \in PixmapRecord /\ v.dirty_present = {}
        /\ v.pending_update = {} /\ v.pending_present = {}
    BY <1>4 DEF Whole, GoodPixmap, CorePixmap, DirtyOK, PendingOK
  <2>3. q \in GoodPixmap
    BY <2>1, ScanoutRefGood DEF Whole
  <2> HIDE DEF v
  <2>4. /\ q.malloc = v.malloc /\ q.gmr = v.gmr /\ (q.hw <=> v.hw)
        /\ (q.damage <=> v.damage) /\ q.fronts = v.fronts /\ q.sync = v.sync
        /\ q.dirty_shadow = v.dirty_shadow /\ q.dirty_hw = v.dirty_hw
        /\ q.dirty_present = v.dirty_present
        /\ q.pending_present = v.pending_present
        /\ q.sw_bits = v.sw_bits /\ q.hw_bits = v.hw_bits
    BY <2>2 DEF PixmapRecord
  <2> HIDE DEF q
  <2>5. Repaints(v, q)
    BY <2>2, <2>4 DEF Repaints
  <2>6. Sound(K, q) /\ \A t \in Tiles : At(q, t) = At(v, t)
    BY <1>4, <2>5, RepaintsSound DEF Whole, v
  <2>7. PendingSound(q) /\ (Flushed(v) => Flushed(q))
    BY <2>2, <2>4 DEF PendingSound, Flushed
  <2> QED
    BY <1>4, <2>1, <2>3, <2>4, <2>6, <2>7 DEF SameContents, Whole, v
<1> QED
  BY <1>1, <1>5, <1>6, <1>7

(* ... and so does one that gives it up with nothing presented on it.      *)
LEMMA ScanoutUnrefKeeps ==
  ASSUME NEW K, NoHazards, NEW p, Whole(K, p), p.dirty_present = {},
         NEW r \in ScanoutUnref(p)
  PROVE  SameContents(K, p, r)
<1>1. PICK a \in PresentReadback(p, Tiles, FALSE) :
        r = RemoveDamage([a.p EXCEPT !.scanout = FALSE, !.dirty_present = {},
                            !.pending_update = {}, !.pending_present = {},
                            !.unshown = {}, !.fb_bits = Blank])
  BY DEF ScanoutUnref, After
<1>2. a.p = p
  BY DoneIs DEF PresentReadback
<1> DEFINE q == [p EXCEPT !.scanout = FALSE, !.dirty_present = {},
                          !.pending_update = {}, !.pending_present = {},
                          !.unshown = {}, !.fb_bits = Blank]
<1>3. r = RemoveDamage(q)
  BY <1>1, <1>2
<1>4. p \in PixmapRecord /\ Sound(K, p)
  BY DEF Whole, GoodPixmap, CorePixmap
<1>5. /\ q \in PixmapRecord
      /\ q.malloc = p.malloc /\ q.gmr = p.gmr /\ (q.hw <=> p.hw)
      /\ (q.damage <=> p.damage) /\ q.fronts = p.fronts /\ q.sync = p.sync
      /\ q.dirty_shadow = p.dirty_shadow /\ q.dirty_hw = p.dirty_hw
      /\ q.dirty_present = {} /\ q.pending_present = {}
      /\ q.sw_bits = p.sw_bits /\ q.hw_bits = p.hw_bits
  BY <1>4, BlankType DEF PixmapRecord
<1> HIDE DEF q
<1>6. /\ r.malloc = p.malloc /\ r.gmr = p.gmr /\ (r.hw <=> p.hw)
      /\ (r.damage => p.damage) /\ r.fronts = p.fronts /\ r.sync = p.sync
      /\ r.dirty_shadow = p.dirty_shadow /\ r.dirty_hw = p.dirty_hw
      /\ r.dirty_present = {} /\ r.pending_present = {}
      /\ r.sw_bits = p.sw_bits /\ r.hw_bits = p.hw_bits
  <2>1. CASE q.hw \/ q.gmr \/ q.malloc
    BY <1>3, <1>5, <2>1 DEF RemoveDamage
  <2>2. CASE ~(q.hw \/ q.gmr \/ q.malloc)
    <3>1. r = [q EXCEPT !.damage = FALSE]
      BY <1>3, <2>2 DEF RemoveDamage
    <3> QED
      BY <1>5, <3>1 DEF PixmapRecord
  <2> QED
    BY <2>1, <2>2
<1>7. r \in GoodPixmap
  BY ScanoutUnrefGood DEF Whole
<1>8. HasStorage(r) <=> HasStorage(p)
  BY <1>6 DEF HasStorage
<1>9. ASSUME NEW t \in Tiles PROVE TileSound(K, r, t) /\ At(r, t) = At(p, t)
  <2>1. TileSound(K, p, t)
    BY <1>4 DEF Sound
  <2>2. At(r, t) = At(p, t)
    BY <1>6 DEF At
  <2> QED
    BY <1>6, <1>8, <2>1, <2>2 DEF TileSound
<1>10. Sound(K, r) /\ PendingSound(r) /\ (Flushed(p) => Flushed(r))
  BY <1>4, <1>6, <1>9 DEF Sound, PendingSound, Flushed
<1> QED
  BY <1>6, <1>7, <1>9, <1>10 DEF SameContents, Whole

(* After a mode set all of the framebuffer waits but what was presented.   *)
LEMMA ScanoutRefreshKeeps ==
  ASSUME NEW K, NEW p, Whole(K, p), p.scanout
  PROVE  SameContents(K, p, ScanoutRefresh(p)) /\ Fresh(K, ScanoutRefresh(p))
<1> DEFINE q == ScanoutRefresh(p)
<1>1. p \in PixmapRecord /\ Sound(K, p) /\ p.damage
  BY DEF Whole, GoodPixmap, CorePixmap, StorageOK
<1>2. /\ q.malloc = p.malloc /\ q.gmr = p.gmr /\ (q.hw <=> p.hw)
      /\ (q.damage <=> p.damage) /\ q.fronts = p.fronts /\ q.sync = p.sync
      /\ q.dirty_shadow = p.dirty_shadow /\ q.dirty_hw = p.dirty_hw
      /\ q.dirty_present = p.dirty_present
      /\ q.pending_update = p.dirty_shadow
      /\ q.pending_present = Tiles \ (p.dirty_present \cup p.dirty_shadow)
      /\ q.sw_bits = p.sw_bits /\ q.hw_bits = p.hw_bits /\ q.fb_bits = p.fb_bits
  BY <1>1 DEF ScanoutRefresh, PixmapRecord
<1>3. q \in GoodPixmap
  BY ScanoutRefreshGood DEF Whole
<1> HIDE DEF q
<1>4. Sound(K, q) /\ \A t \in Tiles : At(q, t) = At(p, t)
  <2>1. Repaints(p, q)
    BY <1>2 DEF Repaints
  <2> QED
    BY <1>1, <2>1, RepaintsSound
<1>5. PendingSound(q)
  BY <1>1, <1>2 DEF PendingSound, Sound, TileSound
<1>6. Fresh(K, q)
  <2>1. ASSUME NEW t \in Tiles
        PROVE  \/ t \in q.pending_update \/ t \in q.pending_present
               \/ t \in q.unshown \/ q.fb_bits[t] = At(q, t)
    <3>1. CASE t \in p.dirty_present
      <4>1. TileSound(K, q, t) /\ t \in q.dirty_present
        BY <1>2, <1>4, <3>1 DEF Sound
      <4> QED
        BY <4>1 DEF TileSound
    <3>2. CASE t \notin p.dirty_present
      BY <1>2, <3>2
    <3> QED
      BY <3>1, <3>2
  <2> QED
    BY <2>1 DEF Fresh
<1>7. SameContents(K, p, q)
  BY <1>2, <1>3, <1>4, <1>5 DEF SameContents, Whole, Flushed
<1> QED
  BY <1>6, <1>7 DEF q

(* Being on the list of front buffers to flush is no part of the contents. *)
LEMMA SyncKeeps ==
  ASSUME NEW K, NEW p, Whole(K, p), NEW b \in BOOLEAN, b => p.hw,
         NEW q, q = [p EXCEPT !.sync = b]
  PROVE  /\ Whole(K, q) /\ (q.scanout <=> p.scanout) /\ q.fronts = p.fronts
         /\ (q.hw <=> p.hw) /\ q.sync = b /\ q.dirty_shadow = p.dirty_shadow
         /\ Fresh(K, p) => Fresh(K, q)
         /\ \A t \in Tiles : At(q, t) = At(p, t)
<1>1. p \in PixmapRecord /\ Sound(K, p) /\ PendingSound(p)
  BY DEF Whole, GoodPixmap, CorePixmap
<1>2. q \in GoodPixmap
  BY SyncGood DEF Whole
<1>3. /\ q.malloc = p.malloc /\ q.gmr = p.gmr /\ (q.hw <=> p.hw)
      /\ (q.damage <=> p.damage) /\ q.fronts = p.fronts /\ q.sync = b
      /\ q.unshown = p.unshown
      /\ q.dirty_shadow = p.dirty_shadow /\ q.dirty_hw = p.dirty_hw
      /\ q.dirty_present = p.dirty_present /\ (q.scanout <=> p.scanout)
      /\ q.pending_update = p.pending_update
      /\ q.pending_present = p.pending_present
      /\ q.sw_bits = p.sw_bits /\ q.hw_bits = p.hw_bits /\ q.fb_bits = p.fb_bits
  BY <1>1 DEF PixmapRecord
<1>4. HasStorage(q) <=> HasStorage(p)
  BY <1>3 DEF HasStorage
<1>5. \A t \in Tiles : At(q, t) = At(p, t)
  BY <1>3 DEF At
<1>6. \A t \in Tiles : TileSound(K, q, t)
  BY <1>1, <1>3, <1>4, <1>5 DEF Sound, TileSound
<1>7. Sound(K, q)
  BY <1>1, <1>3, <1>6 DEF Sound
<1>8. PendingSound(q) /\ (Fresh(K, p) => Fresh(K, q))
  BY <1>1, <1>3, <1>5 DEF PendingSound, Fresh
<1> QED
  BY <1>2, <1>3, <1>5, <1>7, <1>8 DEF Whole

(* When an operation ends, GL clients find what it drew, or will after the *)
(* next flush.                                                             *)
LEMMA OperationCompleteKeeps ==
  ASSUME NEW K, NoHazards, NEW p, Whole(K, p), NEW vt,
         NEW r \in OperationComplete(p, vt),
         NEW m, \A t \in Tiles : t \in K => m[t] = At(p, t)
  PROVE  Renders(K, K, p, r, m) /\ Flushed(r)
<1>0. p \in CorePixmap /\ Sound(K, p) /\ p \in PixmapRecord
  BY DEF Whole, GoodPixmap, CorePixmap
<1>1. CASE ~p.hw \/ p.fronts = 0
  <2>1. r = p
    BY <1>1 DEF OperationComplete
  <2>2. ~(p.fronts > 0)
    BY <1>0, <1>1, MaxFrontsAssumption DEF Sound, PixmapRecord
  <2> QED
    BY <2>1, <2>2 DEF Renders, Flushed
<1>2. CASE ~(~p.hw \/ p.fronts = 0)
  <2>1. PICK o \in (IF vt THEN FlushShadow(p) ELSE {Failed(p)}) :
          r = IF o.ok THEN o.p ELSE [o.p EXCEPT !.sync = TRUE]
    BY <1>2 DEF OperationComplete
  <2>2. Moves(K, p, o.p) /\ (o.ok => o.p.dirty_shadow = {})
    <3>1. CASE vt
      BY <1>0, <1>2, <2>1, <3>1, FlushShadowMoves
    <3>2. CASE ~vt
      BY <1>0, <2>1, <3>2, FailedIs, MovesReflexive
    <3> QED
      BY <3>1, <3>2
  <2>3. /\ Whole(K, o.p) /\ Renders(K, K, p, o.p, m) /\ o.p.hw
    BY <1>2, <2>2, MovesRenders, MovesWhole
  <2>4. CASE o.ok
    BY <2>1, <2>2, <2>3, <2>4 DEF Flushed
  <2>5. CASE ~o.ok
    <3>1. r = [o.p EXCEPT !.sync = TRUE]
      BY <2>1, <2>5
    <3>2. /\ Whole(K, r) /\ (r.scanout <=> o.p.scanout) /\ r.fronts = o.p.fronts
          /\ (r.hw <=> o.p.hw) /\ r.sync = TRUE
          /\ Fresh(K, o.p) => Fresh(K, r)
          /\ \A t \in Tiles : At(r, t) = At(o.p, t)
      <4>1. PICK b \in BOOLEAN : b = TRUE
        OBVIOUS
      <4>2. r = [o.p EXCEPT !.sync = b]
        BY <3>1, <4>1
      <4>3. b => o.p.hw
        BY <2>3
      <4>4. /\ Whole(K, r) /\ (r.scanout <=> o.p.scanout) /\ r.fronts = o.p.fronts
            /\ (r.hw <=> o.p.hw) /\ r.sync = b
            /\ Fresh(K, o.p) => Fresh(K, r)
            /\ \A t \in Tiles : At(r, t) = At(o.p, t)
        BY <2>3, <4>2, <4>3, SyncKeeps
      <4> QED
        BY <4>1, <4>4
    <3> QED
      BY <2>3, <3>2 DEF Renders, Flushed
  <2> QED
    BY <2>4, <2>5
<1> QED
  BY <1>1, <1>2

=============================================================================
