---------------------------- MODULE VmwgfxPixmap ----------------------------
(***************************************************************************)
(* One pixmap of the vmwgfx driver and the functions that migrate its      *)
(* contents (vmwgfx_saa.c, vmwgfx_xa_surface.c, and the kernel calls of    *)
(* vmwgfx_drmi.c they rest on).                                            *)
(*                                                                         *)
(* The pixels of a pixmap may be in up to three places: software storage   *)
(* (malloced memory, or a GMR the device can reach), a 3D surface, and the *)
(* framebuffer of the CRTC that scans the pixmap out.  Regions say which   *)
(* place is current:                                                       *)
(*    dirty_hw       the software storage is stale here;                   *)
(*    dirty_shadow   the surface is stale here;                            *)
(*    dirty_present  a present copied other contents onto the framebuffer, *)
(*                   so the surface is stale here, and where dirty_hw      *)
(*                   holds too only the framebuffer is current.            *)
(*                                                                         *)
(* Each C function is an operator that returns the set of its outcomes,    *)
(* records [ok, p]: the Boolean it returns and the pixmap it leaves.  More *)
(* than one outcome means that an allocation or a device call may fail.    *)
(***************************************************************************)
EXTENDS Naturals

CONSTANTS
  Tiles,            (* the parts of a pixmap that regions tell apart      *)
  Colors,           (* what can be drawn                                  *)
  Junk,             (* the contents of fresh storage                      *)
  DirectPresents,   (* Option "DirectPresents" (use_present_opt)          *)
  OnlyHwPresents,   (* Option "HwPresents" (only_hw_presents)             *)
  MaxFronts,        (* bound: DRI2 front buffers open on one pixmap       *)
  Hazards           (* the events below that a run lets happen            *)

(* Events the code meets but does not survive without losing contents.     *)
(*   format_change    a surface is recreated because a request needs an    *)
(*                    incompatible format (hw_commit, "Killing old ...")   *)
(*   ignored_error    the kernel refuses a transfer or a readback, and     *)
(*                    vmwgfx_dma or vmwgfx_present_readback returns 0      *)
(*   ignored_present  a present or a DirtyFB fails (refused by the kernel, *)
(*                    or no memory or surface handle to ask with), and     *)
(*                    xorg_flush or vmwgfx_present_done ignores the result *)
(*   unref_presented  the last scanout reference goes while directly       *)
(*                    presented contents are on the framebuffer            *)
AllHazards ==
  {"format_change", "ignored_error", "ignored_present", "unref_presented"}

ASSUME OptionsAssumption ==
  /\ DirectPresents \in BOOLEAN
  /\ OnlyHwPresents \in BOOLEAN
  /\ ~(DirectPresents /\ OnlyHwPresents)

ASSUME MaxFrontsAssumption == MaxFronts \in Nat

ASSUME HazardsAssumption == Hazards \subseteq AllHazards

ASSUME JunkAssumption == Junk \notin Colors

ASSUME TilesAssumption == Tiles # {}

Values == Colors \cup {Junk}

Image == [Tiles -> Values]

Blank == [t \in Tiles |-> Junk]

Backings == {"MALLOC", "GMR", "SURFACE"}

PixmapRecord ==
  [ backing : SUBSET Backings,
    malloc  : BOOLEAN,
    gmr     : BOOLEAN,
    hw      : BOOLEAN,
    damage  : BOOLEAN,
    dirty_shadow    : SUBSET Tiles,
    dirty_hw        : SUBSET Tiles,
    dirty_present   : SUBSET Tiles,
    pending_update  : SUBSET Tiles,
    pending_present : SUBSET Tiles,
    scanout : BOOLEAN,    \* scanout_list not empty, fb_id # -1
    fronts  : 0 .. MaxFronts,           \* hw_is_dri2_fronts
    sync    : BOOLEAN,                  \* linked on sync_x_list
    unshown : SUBSET Tiles,   \* history: damage a failing flush dropped
    sw_bits : Image,                    \* in the malloc or the gmr
    hw_bits : Image,                    \* in the surface
    fb_bits : Image ]                   \* on the framebuffer

(* A pixmap after saa_create_pixmap: no storage, nothing dirty.            *)
NewPixmap ==
  [ backing |-> {"MALLOC"},
    malloc |-> FALSE, gmr |-> FALSE, hw |-> FALSE, damage |-> FALSE,
    dirty_shadow |-> {}, dirty_hw |-> {}, dirty_present |-> {},
    pending_update |-> {}, pending_present |-> {},
    scanout |-> FALSE, fronts |-> 0, sync |-> FALSE, unshown |-> {},
    sw_bits |-> Blank, hw_bits |-> Blank, fb_bits |-> Blank ]

(* Storage and the flags that ask for it agree: software contents live in  *)
(* one place, damage is tracked from the first storage to the last, and a  *)
(* framebuffer is made of a GMR unless HwPresents makes it of the surface. *)
StorageOK(v) ==
  /\ ~(v.malloc /\ v.gmr)
  /\ v.malloc => "MALLOC" \in v.backing
  /\ v.gmr => "GMR" \in v.backing
  /\ v.hw => "SURFACE" \in v.backing
  /\ ("MALLOC" \in v.backing) = ("GMR" \notin v.backing)
  /\ v.damage = (v.malloc \/ v.gmr \/ v.hw \/ v.scanout)
  /\ v.scanout => OnlyHwPresents \/ v.gmr

(* Software and surface are not both stale unless the framebuffer holds    *)
(* the contents, and presented tiles are tracked only while there is one.  *)
DirtyOK(v) ==
  /\ v.dirty_shadow \cap (v.dirty_hw \cup v.dirty_present) = {}
  /\ v.dirty_present # {} => v.scanout /\ DirectPresents

(* Pending work is the framebuffer's and names the place that is current.  *)
PendingOK(v) ==
  /\ ~v.scanout => v.pending_update = {} /\ v.pending_present = {}
  /\ v.pending_update \cap (v.dirty_hw \cup v.dirty_present
                                         \cup v.pending_present) = {}
  /\ v.pending_present \cap v.dirty_present = {}

Done(p)   == [ok |-> TRUE, p |-> p]
Failed(p) == [ok |-> FALSE, p |-> p]

(* What the outcomes of a function whose result is ignored leave behind.   *)
After(outcomes) == { o.p : o \in outcomes }

(* f with the tiles of R taken from g.                                     *)
Overlay(f, R, g) == [t \in Tiles |-> IF t \in R THEN g[t] ELSE f[t]]

Contents(p) ==
  [t \in Tiles |-> IF t \notin p.dirty_hw THEN p.sw_bits[t]
                   ELSE IF t \in p.dirty_present THEN p.fb_bits[t]
                   ELSE p.hw_bits[t]]

HasStorage(p) == p.malloc \/ p.gmr

(* vpix->dirty_present is allocated.                                       *)
TracksPresents(p) == p.scanout /\ DirectPresents

----------------------------------------------------------------------------
(* Storage.                                                                *)

AddDamage(p) ==
  IF p.damage THEN {Done(p)}
  ELSE { Failed(p),
         Done([p EXCEPT !.damage = TRUE,
                        !.dirty_shadow = IF p.hw THEN {} ELSE Tiles,
                        !.dirty_hw = IF p.hw THEN Tiles ELSE {}]) }

RemoveDamage(p) ==
  IF p.hw \/ p.gmr \/ p.malloc THEN p ELSE [p EXCEPT !.damage = FALSE]

(* Frees whatever the backing flags no longer ask for.                     *)
FreeStorage(p) ==
  LET malloc == p.malloc /\ "MALLOC" \in p.backing
      gmr    == p.gmr /\ "GMR" \in p.backing
      hw     == p.hw /\ "SURFACE" \in p.backing
  IN [p EXCEPT !.malloc = malloc, !.gmr = gmr, !.hw = hw,
               !.sw_bits = IF malloc \/ gmr THEN @ ELSE Blank,
               !.hw_bits = IF hw THEN @ ELSE Blank]

(* Mutant: the MALLOC flag stays.                                          *)
PreferGmrKeepsMalloc(p) == [p EXCEPT !.backing = @ \cup {"GMR"}]

PreferGmrBacking(p) == [p EXCEPT !.backing = (@ \cup {"GMR"}) \ {"MALLOC"}]

(* Mutant: the malloced memory is freed before it is copied.               *)
CreateGmrNoCopy(p) ==
  IF p.gmr THEN {Done(p)}
  ELSE {Failed(p)} \cup
       { IF o.ok THEN Done(FreeStorage(PreferGmrBacking(
                        [o.p EXCEPT !.gmr = TRUE, !.sw_bits = Blank])))
                 ELSE o :
         o \in IF p.malloc THEN {Done(p)} ELSE AddDamage(p) }

(* The software contents move to a new GMR; without a malloc to copy from  *)
(* the GMR is fresh and the pixmap gets its damage.                        *)
CreateGmr(p) ==
  IF p.gmr THEN {Done(p)}
  ELSE {Failed(p)} \cup
       { IF o.ok THEN Done(FreeStorage(PreferGmrBacking([o.p EXCEPT !.gmr = TRUE])))
                 ELSE o :
         o \in IF p.malloc THEN {Done(p)} ELSE AddDamage(p) }

CreateMalloc(p) ==
  {Failed(p)} \cup
  { IF o.ok THEN Done([o.p EXCEPT !.malloc = TRUE]) ELSE o : o \in AddDamage(p) }

CreateSw(p) ==
  CASE p.backing \cap {"MALLOC", "GMR"} = {}        -> {Failed(p)}
    [] "MALLOC" \in p.backing /\ ~p.malloc           -> CreateMalloc(p)
    [] "GMR" \in p.backing /\ (p.malloc \/ "MALLOC" \notin p.backing)
                                                     -> CreateGmr(p)
    [] OTHER                                         -> {Done(p)}

PreferGmr(p) ==
  IF p.malloc THEN After(CreateGmr(p))
  ELSE IF "MALLOC" \in p.backing THEN {PreferGmrBacking(p)}
  ELSE {p}

CreateHw(p) ==
  IF p.hw THEN {Done(p)}
  ELSE {Failed(p)} \cup
       UNION { IF o.ok
               THEN { Done(q) : q \in PreferGmr(FreeStorage(
                        [o.p EXCEPT !.hw = TRUE, !.backing = @ \cup {"SURFACE"}])) }
               ELSE {o} : o \in AddDamage(p) }

----------------------------------------------------------------------------
(* Moving contents between the places.                                     *)

(* The present-readback call: it may fail before the kernel is asked; the  *)
(* kernel's own error never reaches the caller.  Without a framebuffer     *)
(* (fb_id is -1) the kernel can only refuse.                               *)
ReadbackCall(p, R, fb) ==
  {Failed(p)} \cup
  (IF fb THEN {Done([p EXCEPT !.sw_bits = Overlay(@, R, p.fb_bits)])} ELSE {}) \cup
  (IF ~fb \/ "ignored_error" \in Hazards THEN {Done(p)} ELSE {})

(* Mutant: what was read back is also taken off dirty_present.             *)
PresentReadbackForgets(p, R, fb) ==
  LET lost == p.dirty_hw \cap p.dirty_present \cap R IN
  IF ~p.damage \/ lost = {} THEN {Done(p)}
  ELSE UNION { IF o.ok
               THEN { IF c.ok THEN Done([c.p EXCEPT !.dirty_hw = @ \ lost,
                                                    !.dirty_present = @ \ lost])
                              ELSE c : c \in ReadbackCall(o.p, lost, fb) }
               ELSE {o} : o \in CreateGmr(p) }

PresentReadback(p, R, fb) ==
  LET lost == p.dirty_hw \cap p.dirty_present \cap R IN
  IF ~p.damage \/ lost = {} THEN {Done(p)}
  ELSE UNION { IF o.ok
               THEN { IF c.ok THEN Done([c.p EXCEPT !.dirty_hw = @ \ lost]) ELSE c :
                      c \in ReadbackCall(o.p, lost, fb) }
               ELSE {o} : o \in CreateGmr(p) }

(* A transfer between software storage and surface.  Through a GMR it is a *)
(* device command whose error vmwgfx_dma drops.                            *)
Dma(p, R, to_hw) ==
  IF ~p.hw \/ ~HasStorage(p) THEN {Done(p)}
  ELSE { Failed(p),
         Done(IF to_hw THEN [p EXCEPT !.hw_bits = Overlay(@, R, p.sw_bits)]
                       ELSE [p EXCEPT !.sw_bits = Overlay(@, R, p.hw_bits)]) } \cup
       (IF p.gmr /\ "ignored_error" \in Hazards THEN {Done(p)} ELSE {})

(* Mutant: a partial download marks everything downloaded.                 *)
DownloadForgetsRest(p, R) ==
  UNION { IF o.ok
          THEN { IF c.ok THEN Done([c.p EXCEPT !.dirty_hw = {}]) ELSE c :
                 c \in Dma(o.p, R, FALSE) }
          ELSE {o} : o \in CreateSw(p) }

DownloadSurface(p, R) ==
  UNION { IF o.ok
          THEN { IF c.ok THEN Done([c.p EXCEPT !.dirty_hw = @ \ R]) ELSE c :
                 c \in Dma(o.p, R, FALSE) }
          ELSE {o} : o \in CreateSw(p) }

DownloadFromHw(p, R) ==
  UNION { IF ~o.ok \/ o.p.dirty_hw = {} \/ ~o.p.hw THEN {o}
          ELSE DownloadSurface(o.p, R \cap o.p.dirty_hw) :
          o \in PresentReadback(p, R, TRUE) }

UploadToHw(p, R) == Dma(p, R, TRUE)

(* Upload all of dirty_shadow and forget it, as DRI2 flushes do.           *)
FlushShadow(p) ==
  { IF o.ok THEN Done([o.p EXCEPT !.dirty_shadow = {}]) ELSE o :
    o \in UploadToHw(p, p.dirty_shadow) }

HwKill(p) ==
  IF ~p.hw THEN {Done(p)}
  ELSE { IF o.ok
         THEN LET q == [o.p EXCEPT !.hw = FALSE, !.hw_bits = Blank]
              IN Done(IF q.scanout THEN q ELSE RemoveDamage(q))
         ELSE o : o \in DownloadFromHw(p, p.dirty_hw) }

(* A staged format the surface cannot be redefined to kills the surface.   *)
HwCommit(p) ==
  UNION { CASE ~o.ok            -> {o}
            [] o.ok /\ o.p.hw   -> {Done(o.p), Failed(o.p)}
            [] o.ok /\ ~o.p.hw  -> CreateHw(o.p) :
          o \in {Done(p)} \cup
                (IF p.hw /\ "format_change" \in Hazards THEN HwKill(p) ELSE {}) }

(* Upload what the surface lacks of R.                                     *)
UploadStale(p, R) ==
  LET stale == (p.dirty_shadow \cup p.dirty_present) \cap R IN
  IF ~p.damage \/ stale = {} THEN {Done(p)}
  ELSE { IF o.ok THEN Done([o.p EXCEPT !.dirty_shadow = @ \ stale,
                                       !.dirty_present = @ \ stale])
                 ELSE o : o \in UploadToHw(p, stale) }

HwValidate(p, R) ==
  UNION { IF o.ok THEN UploadStale(o.p, R) ELSE {o} :
          o \in PresentReadback(p, R, TRUE) }

(* Staging fails on a depth or format the device has no surface for.       *)
HwAccelValidate(p, R) ==
  {Failed(p)} \cup
  UNION { IF o.ok THEN HwValidate(o.p, R) ELSE {o} : o \in HwCommit(p) }

HasDirtyHw(p, R) == p.hw /\ p.dirty_hw \cap R # {}
HasValidHw(p, R) == p.hw /\ p.dirty_shadow \cap R = {}

----------------------------------------------------------------------------
(* Scanout.                                                                *)

(* The framebuffer is told of damage (DirtyFB).  Whether that worked is    *)
(* logged, and ignored by xorg_flush.                                      *)
ScanoutUpdate(p, R, bits) ==
  {[p EXCEPT !.fb_bits = Overlay(@, R, bits)]} \cup
  (IF R # {} /\ "ignored_present" \in Hazards THEN {p} ELSE {})

ScanoutPresent(p, R) ==
  IF ~p.hw THEN {p} ELSE ScanoutUpdate(p, R, p.hw_bits)

(* With HwPresents the surface is the framebuffer, so software damage goes *)
(* through it.  xorg_flush does not look at whether that worked: damage    *)
(* whose upload failed is presented from a surface that lacks it.          *)
UploadPending(p) ==
  IF p.pending_update = {} THEN {p}
  ELSE { [o.p EXCEPT !.pending_present = @ \cup p.pending_update,
                     !.unshown = IF o.ok THEN @ \ p.pending_update
                                 ELSE @ \cup p.pending_update] :
         o \in HwAccelValidate(p, Tiles) }

(* Mutant: pending presents are kept, and presented again.                 *)
FlushKeepsPresents(p) ==
  IF ~p.scanout THEN {p}
  ELSE LET updated == IF OnlyHwPresents THEN UploadPending(p)
                      ELSE ScanoutUpdate(p, p.pending_update, p.sw_bits)
       IN UNION { { [r EXCEPT !.pending_update = {}] :
                    r \in ScanoutPresent(q, q.pending_present) } : q \in updated }

(* The part of xorg_flush for one pixmap that is scanned out.              *)
Flush(p) ==
  IF ~p.scanout THEN {p}
  ELSE LET updated == IF OnlyHwPresents THEN UploadPending(p)
                      ELSE ScanoutUpdate(p, p.pending_update, p.sw_bits)
           present(q) == IF OnlyHwPresents
                         THEN ScanoutUpdate(q, q.pending_present, q.hw_bits)
                         ELSE ScanoutPresent(q, q.pending_present)
       IN UNION { { [r EXCEPT !.pending_update = {}, !.pending_present = {},
                              !.unshown = @ \ p.pending_present] :
                    r \in present(q) } : q \in updated }

(* saa_pixmap_dirty and vmwgfx_dirty for damage drawn by software ...      *)
DirtySw(p, R) ==
  LET q == [p EXCEPT !.dirty_shadow = @ \cup R, !.dirty_hw = @ \ R]
  IN IF ~q.scanout THEN {q}
     ELSE { [r EXCEPT !.pending_update = @ \cup R, !.dirty_present = @ \ R] :
            r \in IF q.pending_present \cap R # {} THEN Flush(q) ELSE {q} }

(* ... by the device into the surface ...                                  *)
DirtyHw(p, R) ==
  LET q == [p EXCEPT !.dirty_hw = @ \cup R, !.dirty_shadow = @ \ R]
  IN IF ~q.scanout THEN {q}
     ELSE { [r EXCEPT !.pending_present = @ \cup R, !.dirty_present = @ \ R] :
            r \in IF q.pending_update \cap R # {} THEN Flush(q) ELSE {q} }

(* Mutants: a present leaves the surface stale from software damage, or is *)
(* taken for drawing in the surface.                                       *)
DirtyPresentKeepsShadow(p, R) ==
  [p EXCEPT !.dirty_hw = @ \cup R, !.dirty_present = @ \cup R]

DirtyPresentAsHw(p, R) ==
  [p EXCEPT !.dirty_hw = @ \cup R, !.dirty_shadow = @ \ R]

(* ... and by a present straight onto the framebuffer (present_damage).    *)
DirtyPresent(p, R) ==
  [p EXCEPT !.dirty_hw = @ \cup R, !.dirty_shadow = @ \ R,
            !.dirty_present = @ \cup R]

(* drmModeAddFB and the regions of a scanout pixmap come last, so a        *)
(* failure leaves only the storage created.                                *)
ScanoutRef(p) ==
  UNION { IF o.ok THEN {Failed(RemoveDamage(o.p)),
                        Done([o.p EXCEPT !.scanout = TRUE, !.fb_bits = Blank])}
                  ELSE {o} :
          o \in IF OnlyHwPresents THEN HwAccelValidate(p, Tiles) ELSE CreateGmr(p) }

(* The framebuffer is removed before the readback of what was presented    *)
(* on it, and what the surface lacks of it is forgotten.                   *)
ScanoutUnref(p) ==
  { RemoveDamage([q EXCEPT !.scanout = FALSE, !.dirty_present = {},
                           !.pending_update = {}, !.pending_present = {},
                           !.unshown = {}, !.fb_bits = Blank]) :
    q \in After(PresentReadback(p, Tiles, FALSE)) }

(* Mutant: a mode set presents the surface and forgets software contents.  *)
ScanoutRefreshNoUpdate(p) ==
  [p EXCEPT !.pending_present = Tiles \ (p.dirty_present \cup p.dirty_shadow),
            !.pending_update = {}]

ScanoutRefresh(p) ==
  [p EXCEPT !.pending_present = Tiles \ (p.dirty_present \cup p.dirty_shadow),
            !.pending_update = p.dirty_shadow]

----------------------------------------------------------------------------
(* CPU access and the end of an operation.                                 *)

(* saa_prepare_access_pixmap: the contents of R are brought to software    *)
(* storage, which is created if there is none.  The code does not survive  *)
(* a failure of the latter (it draws through a NULL pointer), so that      *)
(* outcome ends the behaviour.                                             *)
PrepareAccess(p, R) ==
  UNION { IF o.ok THEN { c \in CreateSw(o.p) : c.ok } ELSE {o} :
          o \in IF R = {} THEN {Done(p)} ELSE DownloadFromHw(p, R) }

(* Mutants: the upload is also tried while the VT is away; a front buffer  *)
(* that could not be brought up to date is not queued.                     *)
OperationCompleteAnyVT(p, vt) ==
  IF ~p.hw \/ p.fronts = 0 THEN {p}
  ELSE { IF o.ok THEN o.p ELSE [o.p EXCEPT !.sync = TRUE] : o \in FlushShadow(p) }

OperationCompleteNoQueue(p, vt) ==
  IF ~p.hw \/ p.fronts = 0 \/ ~vt THEN {p} ELSE After(FlushShadow(p))

(* DRI2 front buffers are brought up to date at once, or queued for the    *)
(* next flush when the upload fails or the VT is switched away.            *)
OperationComplete(p, vt) ==
  IF ~p.hw \/ p.fronts = 0 THEN {p}
  ELSE { IF o.ok THEN o.p ELSE [o.p EXCEPT !.sync = TRUE] :
         o \in IF vt THEN FlushShadow(p) ELSE {Failed(p)} }
============================================================================
