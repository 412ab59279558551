----------------------------- MODULE VmwgfxSaa -----------------------------
(***************************************************************************)
(* The acceleration core of the vmwgfx driver: the shadow acceleration     *)
(* architecture (saa/), its driver (vmwgfx_saa.c, vmwgfx_xa_surface.c) and *)
(* the parts of KMS and DRI2 that use it, over the pixmaps of one screen   *)
(* with one CRTC.                                                          *)
(*                                                                         *)
(* The X server serves one request or callback at a time, so each action   *)
(* is a whole one: every function it calls, to the damage report at its    *)
(* end.  What interleaves is the order of requests, mode sets, VT          *)
(* switches, block handlers and GL clients, and what fails in the middle   *)
(* of one.                                                                 *)
(*                                                                         *)
(* mem and reply are what clients observe.  mem is a history variable: an  *)
(* action that succeeds records in it what the request meant, and nothing  *)
(* reads it.  Where the code itself gives pixels up, mem says Lost: where  *)
(* a download failed and its region was emptied all the same (LeaveVT),    *)
(* where PushPixels damages what it does not draw, and where a GL client   *)
(* draws without damage (Dri2WaitGL).                                      *)
(***************************************************************************)
EXTENDS VmwgfxPixmap

CONSTANTS
  Pixmaps,
  Root,             (* the screen pixmap                                  *)
  Scanouts,         (* pixmaps a CRTC may show: Root, rotation shadows    *)
  GlPixmaps,        (* pixmaps GL clients open as front buffers: their    *)
                    (* own, never one the server scans out                *)
  NoPixmap,
  NoReply,
  Lost,             (* in mem: pixels the code gave up                    *)
  Blend,
  RenderCheck,      (* Option "RenderCheck"                               *)
  Rects,            (* the regions requests name                          *)
  Translations      (* the copies requests ask for: [dst tile -> src tile]*)

ASSUME ScreenAssumption ==
  /\ Root \in Scanouts
  /\ Scanouts \subseteq Pixmaps
  /\ GlPixmaps \subseteq Pixmaps \ Scanouts
  /\ NoPixmap \notin Pixmaps

ASSUME LostAssumption == Lost \notin Values

Memory == [Tiles -> Values \cup {Lost}]

ASSUME RequestsAssumption ==
  /\ RenderCheck \in BOOLEAN
  /\ Rects \subseteq SUBSET Tiles
  /\ Translations \subseteq UNION { [R -> Tiles] : R \in SUBSET Tiles }
  /\ Blend \in [Values \X Values -> Values]

VARIABLES
  pix,              (* pix[p]: the vmwgfx_saa_pixmap of p                 *)
  entry,            (* crtcp->entry.pixmap                                *)
  shown,            (* the last SetCrtc for entry succeeded               *)
  master,           (* is_master, isMaster and vtSema                     *)
  mem, reply

vars == <<pix, entry, shown, master, mem, reply>>

Client == INSTANCE PixelMemory WITH vt <- master

TypeOK ==
  /\ pix \in [Pixmaps -> PixmapRecord]
  /\ entry \in Scanouts \cup {NoPixmap}
  /\ shown \in BOOLEAN
  /\ master \in BOOLEAN
  /\ mem \in [Pixmaps -> Memory]
  /\ reply \in Values \cup {NoReply}

Init ==
  /\ pix = [p \in Pixmaps |-> NewPixmap]
  /\ entry = NoPixmap
  /\ shown = FALSE
  /\ Client!Init

----------------------------------------------------------------------------
(* Requests that touch one pixmap.                                         *)

(* What a drawing makes of the contents it is drawn on.                    *)
Filling(R, c)  == [b \in Memory |-> Client!ApplyFill(b, R, c)]
Blending(R, c) == [b \in Memory |-> Client!ApplyBlend(b, R, c)]

(* The damage layer reports the end of the operation whether or not        *)
(* anything could be drawn.                                                *)
Draws(p, outcomes, contents) ==
  \E o \in outcomes : \E q \in OperationComplete(o.p, master) :
    /\ pix' = [pix EXCEPT ![p] = q]
    /\ mem' = IF o.ok THEN [mem EXCEPT ![p] = contents] ELSE mem
    /\ reply' = NoReply
    /\ UNCHANGED <<entry, shown, master>>

(* Software rendering into R of a mapped pixmap, after a readback of read. *)
RenderSw(p, read, R, drawing) ==
  UNION { IF o.ok THEN { Done(q) : q \in DirtySw([o.p EXCEPT !.sw_bits = drawing[@]], R) }
                  ELSE {o} : o \in PrepareAccess(p, read) }

(* Mutant: the pixmap is mapped write-only.                                *)
SwDrawWriteOnly(p, R, c) ==
  Draws(p, RenderSw(pix[p], {}, R, Blending(R, c)), Blending(R, c)[mem[p]])

(* Requests that read what they draw on: spans, glyphs, lines, arcs, and   *)
(* PutImage or rectangles with a reading raster operation or stipple.      *)
SwDraw(p, R, c) ==
  Draws(p, RenderSw(pix[p], R, R, Blending(R, c)), Blending(R, c)[mem[p]])

(* PutImage and PolyFillRect when the GC reads nothing.                    *)
SwFill(p, R, c) ==
  Draws(p, RenderSw(pix[p], {}, R, Filling(R, c)), Filling(R, c)[mem[p]])

(* PushPixels with such a GC: it damages all of R, sets W and reads back   *)
(* nothing, so what only the device had of the rest is lost.               *)
PushPixels(p, W, R, c) ==
  Draws(p, RenderSw(pix[p], {}, R, Filling(W, c)),
        Client!Forget(Filling(W, c)[mem[p]], (R \ W) \cap pix[p].dirty_hw))

GetImage(p, t) ==
  \E o \in PrepareAccess(pix[p], {t}) :
    /\ pix' = [pix EXCEPT ![p] = o.p]
    /\ reply' = IF o.ok THEN o.p.sw_bits[t] ELSE NoReply
    /\ UNCHANGED <<entry, shown, master, mem>>

(* The last reference is freed; the name stands for a new pixmap.          *)
DestroyPixmap(p) ==
  /\ p # Root
  /\ p # entry
  /\ pix[p].fronts = 0
  /\ pix' = [pix EXCEPT ![p] = NewPixmap]
  /\ Client!Discard(p)
  /\ UNCHANGED <<entry, shown, master>>

----------------------------------------------------------------------------
(* Requests between pixmaps.  Their outcomes are records [ok, pix] that    *)
(* hold all pixmaps.                                                       *)

NotDone(f) == [ok |-> FALSE, pix |-> f]

(* Continue each successful outcome with a function of pixmap p.           *)
OnPixmap(outcomes, p, F(_)) ==
  UNION { IF o.ok
          THEN { [ok |-> r.ok, pix |-> [o.pix EXCEPT ![p] = r.p]] : r \in F(o.pix[p]) }
          ELSE {o} : o \in outcomes }

SourceRegion(m) == { m[t] : t \in DOMAIN m }

(* Mutant: a present does not flush the damage that waits.                 *)
PresentCopyNoFlush(f, s, d, m) ==
  LET Validate(p) == HwAccelValidate(p, SourceRegion(m))
      Present(f1, q) == [q EXCEPT !.fb_bits = Client!ApplyCopy(@, f1[s].hw_bits, m)]
  IN UNION { {NotDone(o.pix)} \cup
             (IF ~o.ok \/ s = d THEN {}
              ELSE { [ok |-> TRUE,
                      pix |-> [o.pix EXCEPT ![d] =
                                 DirtyPresent(Present(o.pix, @), DOMAIN m)]] }) :
             o \in OnPixmap({[ok |-> TRUE, pix |-> f]}, s, Validate) }

(* A copy onto the framebuffer of a scanout pixmap.  Whether the present   *)
(* worked is not looked at.                                                *)
PresentCopy(f, s, d, m) ==
  LET Validate(p) == HwAccelValidate(p, SourceRegion(m))
      Present(f1, q) ==
        { [q EXCEPT !.fb_bits = Client!ApplyCopy(@, f1[s].hw_bits, m)] } \cup
        (IF "ignored_present" \in Hazards THEN {q} ELSE {})
  IN UNION { {NotDone(o.pix)} \cup
             (IF ~o.ok \/ s = d THEN {}
              ELSE { [ok |-> TRUE,
                      pix |-> [o.pix EXCEPT ![d] = DirtyPresent(r, DOMAIN m)]] :
                     r \in UNION { Present(o.pix, q) : q \in Flush(o.pix[d]) } }) :
             o \in OnPixmap({[ok |-> TRUE, pix |-> f]}, s, Validate) }

(* What a copy or composite makes of its destination and source.           *)
Copying(m)     == [x \in Memory \X Memory |-> Client!ApplyCopy(x[1], x[2], m)]
Compositing(m) == [x \in Memory \X Memory |-> Client!ApplyOver(x[1], x[2], m)]

(* The device reads the surface of s and writes the surface of d.          *)
RenderHw(outcomes, s, d, R, drawing) ==
  UNION { {NotDone(o.pix)} \cup
          (IF ~o.ok THEN {}
           ELSE { [ok |-> TRUE, pix |-> [o.pix EXCEPT ![d] = q]] :
                  q \in DirtyHw([o.pix[d] EXCEPT
                                   !.hw_bits = drawing[<<@, o.pix[s].hw_bits>>]], R) }) :
          o \in outcomes }

CommitBoth(f, s, d) ==
  {NotDone(f)} \cup
  OnPixmap(OnPixmap({[ok |-> TRUE, pix |-> f]}, s, HwCommit), d, HwCommit)

SurfaceCopy(f, s, d, m) ==
  LET Validate(p) == HwValidate(p, SourceRegion(m))
  IN RenderHw(OnPixmap(CommitBoth(f, s, d), s, Validate), s, d, DOMAIN m, Copying(m))

(* The device copies only what it holds newer contents of, or all of what  *)
(* it needs.                                                               *)
HwCopy(f, s, d, m) ==
  LET R == SourceRegion(m)
      dirty == HasDirtyHw(f[s], R)
      valid == HasValidHw(f[s], R)
  IN CASE ~master -> {NotDone(f)}
       [] master /\ TracksPresents(f[d]) /\ "SURFACE" \in f[s].backing ->
            IF dirty \/ valid THEN PresentCopy(f, s, d, m) ELSE {NotDone(f)}
       [] OTHER ->
            IF s # d /\ (dirty \/ (valid /\ f[d].hw))
            THEN SurfaceCopy(f, s, d, m) ELSE {NotDone(f)}

(* Both pixmaps are mapped, the source read back and the destination       *)
(* written whole (copy) or read back too (blend).                          *)
TransferSw(f, s, d, read, R, src, drawing) ==
  LET Read(p)  == PrepareAccess(p, src)
      Write(p) == PrepareAccess(p, read)
  IN UNION { IF ~o.ok THEN {o}
             ELSE { [ok |-> TRUE, pix |-> [o.pix EXCEPT ![d] = q]] :
                    q \in DirtySw([o.pix[d] EXCEPT
                                     !.sw_bits = drawing[<<@, o.pix[s].sw_bits>>]], R) } :
             o \in OnPixmap(OnPixmap({[ok |-> TRUE, pix |-> f]}, s, Read), d, Write) }

SwCopy(f, s, d, m, read) ==
  TransferSw(f, s, d, read, DOMAIN m, SourceRegion(m), Copying(m))

(* saa_copy_nton: the driver's copy, or else software, which reads back    *)
(* the destination when the GC has a client clip.                          *)
CopyNToN(f, s, d, m, read) ==
  UNION { IF o.ok THEN {o} ELSE SwCopy(o.pix, s, d, m, read) : o \in HwCopy(f, s, d, m) }

(* The whole of a request with destination d.                              *)
Transfers(d, outcomes, contents) ==
  \E o \in outcomes : \E q \in OperationComplete(o.pix[d], master) :
    /\ pix' = [o.pix EXCEPT ![d] = q]
    /\ mem' = IF o.ok THEN [mem EXCEPT ![d] = contents] ELSE mem
    /\ reply' = NoReply
    /\ UNCHANGED <<entry, shown, master>>

CopyArea(s, d, m) ==
  Transfers(d, CopyNToN(pix, s, d, m, {}), Copying(m)[<<mem[d], mem[s]>>])

(* vmwgfx_composite_prepare: accelerate when contents are only in hardware *)
(* or all of them are there, and then migrate both pixmaps whole.          *)
HwComposite(f, s, d, m, reads, drawing) ==
  LET dirtyDst == reads /\ HasDirtyHw(f[d], DOMAIN m)
      validDst == f[d].hw /\ (reads => HasValidHw(f[d], DOMAIN m))
      dirtySrc == HasDirtyHw(f[s], SourceRegion(m))
      validSrc == HasValidHw(f[s], SourceRegion(m))
      Validate(p) == HwValidate(p, Tiles)
      migrated == OnPixmap(OnPixmap(CommitBoth(f, s, d), s, Validate), d, Validate)
  IN IF master /\ (dirtyDst \/ dirtySrc \/ (validDst /\ validSrc) \/ RenderCheck)
     THEN {NotDone(f)} \cup RenderHw(migrated, s, d, DOMAIN m, drawing)
     ELSE {NotDone(f)}

CompositeOver(s, d, m) ==
  LET over == Compositing(m)
      outcomes ==
        UNION { IF o.ok THEN {o}
                ELSE TransferSw(o.pix, s, d, DOMAIN m, DOMAIN m, SourceRegion(m), over) :
                o \in HwComposite(pix, s, d, m, TRUE, over) }
  IN s # d /\ Transfers(d, outcomes, over[<<mem[d], mem[s]>>])

(* PictOpSrc is tried as a copy first, then as a composite.                *)
CompositeSrc(s, d, m) ==
  LET composed(f) ==
        UNION { IF o.ok THEN {o} ELSE SwCopy(o.pix, s, d, m, {}) :
                o \in HwComposite(f, s, d, m, FALSE, Copying(m)) }
      outcomes ==
        UNION { IF o.ok THEN {o} ELSE composed(o.pix) : o \in HwCopy(pix, s, d, m) }
  IN s # d /\ Transfers(d, outcomes, Copying(m)[<<mem[d], mem[s]>>])

----------------------------------------------------------------------------
(* Mode setting and the virtual terminal.                                  *)

(* xorg_flush, from the block handler.                                     *)
BlockHandler ==
  /\ entry # NoPixmap
  /\ \E q \in Flush(pix[entry]) : pix' = [pix EXCEPT ![entry] = q]
  /\ Client!Internal
  /\ UNCHANGED <<entry, shown, master>>

(* The last scanout reference may go: the pixmap holds one (the code does  *)
(* not survive otherwise: its pending regions are NULL).                   *)
MayUnref(p) ==
  /\ p.scanout
  /\ "unref_presented" \in Hazards \/ p.dirty_present = {}

Unref(f, p) == { [f EXCEPT ![p] = q] : q \in ScanoutUnref(f[p]) }

(* crtc_set_mode_major for pixmap q, from screen contents f and entry e.   *)
(* A reference that cannot be taken leaves entry.pixmap set all the same.  *)
SetMode(f, e, q) ==
  LET RefStep(p) == IF e # q THEN ScanoutRef(p)
                    ELSE IF p.scanout THEN {Done(p)} ELSE {Failed(p)}
      start == IF e \in {q, NoPixmap} THEN {f} ELSE Unref(f, e)
  IN UNION { {NotDone(o.pix)} \cup
             (IF o.ok THEN {[ok |-> TRUE,
                             pix |-> [o.pix EXCEPT ![q] = ScanoutRefresh(@)]]} ELSE {}) :
             o \in OnPixmap({[ok |-> TRUE, pix |-> g] : g \in start}, q, RefStep) }

SetModeMajor(q) ==
  /\ master
  /\ entry \notin {q, NoPixmap} => MayUnref(pix[entry])
  /\ \E o \in SetMode(pix, entry, q) :
       /\ pix' = o.pix
       /\ shown' = (o.ok \/ (shown /\ entry = q))
  /\ entry' = q
  /\ Client!Internal
  /\ UNCHANGED master

(* crtc_dpms of a CRTC that is no longer enabled.                          *)
CrtcOff ==
  /\ entry # NoPixmap
  /\ MayUnref(pix[entry])
  /\ pix' \in Unref(pix, entry)
  /\ entry' = NoPixmap
  /\ shown' = FALSE
  /\ Client!Internal
  /\ UNCHANGED master

(* Every way to choose for each pixmap one of its outcomes.                *)
Choices(S) ==
  { g \in [Pixmaps -> UNION { S[p] : p \in Pixmaps }] :
      \A p \in Pixmaps : g[p] \in S[p] }

(* Mutants: the surface is dropped without a download, or kept current.    *)
DropMasterNoDownload(p) == {[lost |-> {}, p |-> [p EXCEPT !.dirty_hw = {}]]}

DropMasterNothing(p) == {[lost |-> {}, p |-> p]}

(* Whether the download worked is not looked at: dirty_hw is emptied, and  *)
(* what was still in it is lost.                                           *)
DropMaster(p) ==
  IF ~p.hw THEN {[lost |-> {}, p |-> p]}
  ELSE { [lost |-> o.p.dirty_hw, p |-> [o.p EXCEPT !.dirty_hw = {}]] :
         o \in DownloadFromHw(p, p.dirty_hw) }

LeaveVT ==
  /\ master
  /\ entry # NoPixmap => MayUnref(pix[entry])
  /\ \E f \in (IF entry = NoPixmap THEN {pix} ELSE Unref(pix, entry)) :
     \E g \in Choices([p \in Pixmaps |-> DropMaster(f[p])]) :
       /\ pix' = [p \in Pixmaps |-> g[p].p]
       /\ mem' = [p \in Pixmaps |-> Client!Forget(mem[p], g[p].lost)]
  /\ entry' = NoPixmap
  /\ shown' = FALSE
  /\ master' = FALSE
  /\ reply' = NoReply

(* vmwgfx_flush_dri2 for one pixmap on sync_x_list.                        *)
FlushDri2(p) ==
  IF ~p.sync THEN {p}
  ELSE { IF o.ok THEN [o.p EXCEPT !.sync = FALSE] ELSE o.p : o \in FlushShadow(p) }

(* The server exits when the desired mode cannot be set.                   *)
EnterVT ==
  /\ ~master
  /\ \E f \in Choices([p \in Pixmaps |-> FlushDri2(pix[p])]) :
       \E o \in SetMode(f, NoPixmap, Root) :
         /\ o.ok
         /\ pix' = o.pix
  /\ entry' = Root
  /\ shown' = TRUE
  /\ master' = TRUE
  /\ Client!Internal

----------------------------------------------------------------------------
(* DRI2.                                                                   *)

(* A GL client asks for the front buffer of a pixmap.                      *)
Dri2CreateBuffer(p) ==
  /\ master
  /\ pix[p].fronts < MaxFronts
  /\ \E o \in HwAccelValidate(pix[p], Tiles) :
       pix' = [pix EXCEPT ![p] = IF o.ok THEN [o.p EXCEPT !.fronts = @ + 1] ELSE o.p]
  /\ Client!Internal
  /\ UNCHANGED <<entry, shown, master>>

(* Mutant: a front buffer is destroyed once too often.                     *)
Dri2DestroyBufferTwice(p) ==
  /\ pix' = [pix EXCEPT ![p].fronts = @ - 1,
                        ![p].sync = @ /\ pix[p].fronts > 1]
  /\ Client!Internal
  /\ UNCHANGED <<entry, shown, master>>

Dri2DestroyBuffer(p) ==
  /\ pix[p].fronts > 0
  /\ pix' = [pix EXCEPT ![p].fronts = @ - 1,
                        ![p].sync = @ /\ pix[p].fronts > 1]
  /\ Client!Internal
  /\ UNCHANGED <<entry, shown, master>>

(* glXWaitX on a pixmap: front to fake front of the same pixmap.           *)
Dri2WaitX(p) ==
  /\ master
  /\ pix[p].fronts > 0
  /\ \E o \in HwAccelValidate(pix[p], Tiles) :
       LET f == [pix EXCEPT ![p] = o.p]
       IN IF o.ok THEN pix' \in Choices([q \in Pixmaps |-> FlushDri2(f[q])])
                  ELSE pix' = f
  /\ Client!Internal
  /\ UNCHANGED <<entry, shown, master>>

(* glXWaitGL on a pixmap: the client drew into R of the surface and the    *)
(* server is asked to copy fake front to front, which are the same: no     *)
(* damage is recorded.  What the surface is not known to be ahead in may   *)
(* be read from software, or overwritten by the next upload: it is lost.   *)
Dri2WaitGL(p, R, c) ==
  /\ master
  /\ pix[p].fronts > 0 /\ pix[p].hw
  /\ pix' = [pix EXCEPT ![p].hw_bits = Client!ApplyFill(@, R, c)]
  /\ mem' = [mem EXCEPT ![p] = Client!Forget(Client!ApplyFill(@, R, c),
                                              R \ pix[p].dirty_hw)]
  /\ reply' = NoReply
  /\ UNCHANGED <<entry, shown, master>>

(* The client drew c into R of its fake front s and has it copied to d.    *)
Dri2CopyRegion(s, d, R, c) ==
  /\ master
  /\ s # d
  /\ pix[s].fronts > 0 /\ pix[s].hw
  /\ LET drawn == [pix[s] EXCEPT !.hw_bits = Client!ApplyFill(@, R, c)]
     IN \E a \in DirtyHw(drawn, R) : \E b \in OperationComplete(a, TRUE) :
        \E o \in CopyNToN([pix EXCEPT ![s] = b], s, d, [t \in R |-> t], R) :
        \E q \in OperationComplete(o.pix[d], TRUE) :
          /\ pix' = [o.pix EXCEPT ![d] = q]
          /\ mem' = [p \in Pixmaps |-> IF p = s \/ (p = d /\ o.ok)
                                       THEN Client!ApplyFill(mem[p], R, c) ELSE mem[p]]
  /\ reply' = NoReply
  /\ UNCHANGED <<entry, shown, master>>

----------------------------------------------------------------------------
Next ==
  \/ \E p \in Pixmaps, R \in Rects, c \in Colors :
       \/ SwDraw(p, R, c)
       \/ SwFill(p, R, c)
       \/ \E W \in SUBSET R : PushPixels(p, W, R, c)
  \/ \E p \in Pixmaps, t \in Tiles : GetImage(p, t)
  \/ \E p \in Pixmaps : DestroyPixmap(p)
  \/ \E s, d \in Pixmaps, m \in Translations :
       CopyArea(s, d, m) \/ CompositeOver(s, d, m) \/ CompositeSrc(s, d, m)
  \/ BlockHandler
  \/ \E q \in Scanouts : SetModeMajor(q)
  \/ CrtcOff
  \/ LeaveVT
  \/ EnterVT
  \/ \E p \in GlPixmaps :
       \/ Dri2CreateBuffer(p)
       \/ Dri2DestroyBuffer(p)
       \/ Dri2WaitX(p)
       \/ \E R \in Rects, c \in Colors :
            \/ Dri2WaitGL(p, R, c)
            \/ \E d \in Pixmaps : Dri2CopyRegion(p, d, R, c)

Spec == Init /\ [][Next]_vars

(* The dispatch loop runs the block handler before every wait.             *)
FairSpec == Spec /\ WF_vars(BlockHandler)

----------------------------------------------------------------------------
(* Properties.  Those about contents (all but TypeOK, RegionsAgree and     *)
(* StorageAgrees) hold where none of the events of AllHazards happens:     *)
(* a kernel call or a present that fails with nobody told is one of them.  *)

(* Where the driver would look for the pixels of a pixmap, it finds what   *)
(* the clients drew: no readback, upload, present or flush was missed.     *)
(* Lost pixels are left out: drop_master, PushPixels and drawing by GL     *)
(* clients gave those up.                                                  *)
ContentsKept ==
  \A p \in Pixmaps : \A t \in Client!Kept(mem[p]) : Contents(pix[p])[t] = mem[p][t]

(* A tile no region marks is the same in the surface as in software, so    *)
(* that hw_validate may leave it alone (hw_validate, check_hw_contents),   *)
(* unless its pixels were lost.                                            *)
SurfaceValid ==
  \A p \in Pixmaps : pix[p].hw =>
    \A t \in Client!Kept(mem[p]) \ (pix[p].dirty_hw \cup pix[p].dirty_shadow
                                         \cup pix[p].dirty_present) :
      pix[p].hw_bits[t] = pix[p].sw_bits[t]

(* The regions never contradict each other, in any option and after any    *)
(* failure: what is marked stale, presented or pending (vmwgfx_dirty,      *)
(* present_done, xorg_flush) can be told apart.                            *)
RegionsAgree == \A p \in Pixmaps : DirtyOK(pix[p]) /\ PendingOK(pix[p])

(* Contents that software storage lacks are in a surface that exists or    *)
(* were presented on a framebuffer: freeing, killing and recreating        *)
(* storage never strands them.                                             *)
HeldSomewhere ==
  \A p \in Pixmaps : pix[p].hw \/ pix[p].dirty_hw \subseteq pix[p].dirty_present

(* Backing flags, storage and damage tracking agree whatever allocation or *)
(* device call failed half way (create_*, hw_kill, scanout_ref and _unref).*)
StorageAgrees == \A p \in Pixmaps : StorageOK(pix[p])

(* What the CRTC shows is what the clients drew, but for the damage the    *)
(* next flush will bring to the screen, damage a flush dropped because its *)
(* upload failed, and lost pixels (vmwgfx_dirty, xorg_flush).              *)
ScreenFresh ==
  entry # NoPixmap /\ shown =>
    LET v == pix[entry] IN
    \A t \in Client!Kept(mem[entry])
                 \ (v.pending_update \cup v.pending_present \cup v.unshown) :
      v.fb_bits[t] = mem[entry][t]

(* While the VT is away nothing is only in hardware, so no request needs a *)
(* readback the kernel would block (drop_master).                          *)
NothingHeldAway ==
  ~master => \A p \in Pixmaps : pix[p].dirty_hw = {}

(* While the VT is away no request writes a surface or the framebuffer     *)
(* ("a flush would deadlock in the kernel", operation_complete).           *)
HandsOffAway ==
  [][ ~master /\ ~master' =>
        \A p \in Pixmaps :
          \/ pix'[p].hw_bits = pix[p].hw_bits /\ pix'[p].fb_bits = pix[p].fb_bits
          \/ pix'[p] = NewPixmap ]_vars

(* A GL client that shares the surface of a pixmap finds in it what X      *)
(* requests drew, or the pixmap is queued for the next flush.              *)
FrontsFlushed ==
  \A p \in Pixmaps :
    pix[p].fronts > 0 /\ pix[p].hw => pix[p].sync \/ pix[p].dirty_shadow = {}

(* The driver implements the memory of pixels it promises: every GetImage  *)
(* returns what the requests before it drew, but for the pixels that       *)
(* leaving the VT, PushPixels and drawing by GL clients may lose.          *)
ClientSpec == Client!Spec

(* Pending work is flushed however often requests add to it (the block     *)
(* handler, xorg_flush); ScreenFresh says what a flush brings.             *)
ScreenCatchesUp ==
  [](entry # NoPixmap => <>(entry = NoPixmap \/
       pix[entry].pending_update \cup pix[entry].pending_present = {}))
============================================================================
