---------------------------- MODULE VmwareCursor ----------------------------
(***************************************************************************)
(* The hardware cursor of the legacy driver (src/vmwarecurs.c, the macros  *)
(* of src/vmware.h).  The device draws the cursor into the framebuffer, so *)
(* that it must be taken out while the server reads or draws there.  Mouse *)
(* moves arrive in a signal handler, between any two steps of the server.  *)
(*                                                                         *)
(* pc says where the server's thread is; each of its reads or writes of    *)
(* what the handler writes is a step.  The handler runs as one.            *)
(***************************************************************************)
EXTENDS Integers

CONSTANTS
  Xs, Ys,       (* coordinates a cursor may have                          *)
  Regions,      (* what requests read or draw on: sets of coordinates     *)
  Bypass2       (* SVGA_CAP_CURSOR_BYPASS_2                               *)

ASSUME CursorAssumption ==
  /\ 0 \in Xs /\ 0 \in Ys
  /\ Regions \subseteq [x : SUBSET Xs, y : SUBSET Ys]
  /\ Bypass2 \in BOOLEAN

VARIABLES
  x, y, box,                      (* hwcur                                *)
  defined,                        (* cursorDefined                        *)
  sema,                           (* cursorSema                           *)
  excluded,                       (* hidden of a wrapper (read), and      *)
                                  (* cursorExcludedForUpdate (update)     *)
  should_be_hidden,               (* cursorShouldBeHidden                 *)
  reg_x, reg_y, on, at,           (* the registers, and where the device  *)
                                  (* drew the cursor last                 *)
  vt,                             (* *pvtSema                             *)
  up,                             (* the server has a cursor to move      *)
  pc, ret, visible, force, value, (* the thread: where, and the arguments *)
  region, level                   (* of the calls it is in                *)

hwcur  == <<x, y, box>>
counts == <<sema, excluded>>
regs   == <<reg_x, reg_y, on, at>>
server == <<vt, up>>
args   == <<ret, visible, force, value, region, level>>

vars == <<hwcur, defined, counts, should_be_hidden, regs, server, pc, args>>

Levels == {"read", "update"}

Shown == on \in {"SHOW", "RESTORE_TO_FB"}

(* Where the thread may be: in drawing, with an update's callbacks inside  *)
(* a wrapper or not; in vmwareWriteCursorRegs; in calls about the cursor.  *)
Drawing == {"test_x", "test_y", "pre", "tested", "draw", "post", "posted"}
Writing == {"read_x", "write_x", "read_y", "write_y", "write_on"}
Calling == {"defining", "set_x", "set_y", "set_box_x", "set_box_y", "position_set",
            "show", "installed", "hidden", "down", "mode"}
Points  == Drawing \cup Writing \cup Calling \cup {"idle"}

TypeOK ==
  /\ x \in Xs /\ y \in Ys /\ box \in Xs \X Ys
  /\ defined \in BOOLEAN /\ sema \in 0 .. 2 /\ excluded \in [Levels -> BOOLEAN]
  /\ should_be_hidden \in BOOLEAN
  /\ reg_x \in Xs /\ reg_y \in Ys /\ at \in Xs \X Ys
  /\ on \in {"HIDE", "SHOW", "REMOVE_FROM_FB", "RESTORE_TO_FB"}
  /\ vt \in BOOLEAN /\ up \in BOOLEAN
  /\ pc \in Points /\ ret \in Points \ Writing
  /\ visible \in BOOLEAN /\ force \in BOOLEAN
  /\ value \in Xs \X Ys
  /\ region \in [Levels -> [x : SUBSET Xs, y : SUBSET Ys]]
  /\ level \in Levels

(* After ScreenInit: no cursor is defined yet.                             *)
Init ==
  /\ x = 0 /\ y = 0 /\ box = <<0, 0>>
  /\ defined = FALSE /\ sema = 0 /\ excluded = [l \in Levels |-> FALSE]
  /\ should_be_hidden = FALSE
  /\ reg_x = 0 /\ reg_y = 0 /\ on = "HIDE" /\ at = <<0, 0>>
  /\ vt = TRUE /\ up = FALSE
  /\ pc = "idle" /\ ret = "idle" /\ visible = FALSE /\ force = FALSE
  /\ value = <<0, 0>>
  /\ region = [l \in Levels |-> [x |-> {}, y |-> {}]] /\ level = "read"

Goto(point) == pc' = point

----------------------------------------------------------------------------
(* vmwareWriteCursorRegs.  The handler is blocked during each write of a   *)
(* register (vmwareWriteReg) but not from one to the next, nor between the *)
(* read of a coordinate and its write.                                     *)

WriteCursorRegs(show, forced, then) ==
  /\ visible' = show /\ force' = forced /\ ret' = then
  /\ Goto(IF show THEN "read_x" ELSE "write_on")
  /\ UNCHANGED <<value, region, level>>

ReadX ==
  /\ pc = "read_x" /\ Goto("write_x")
  /\ value' = <<x, value[2]>>
  /\ UNCHANGED <<hwcur, defined, counts, should_be_hidden, regs, server,
                 ret, visible, force, region, level>>

WriteX ==
  /\ pc = "write_x" /\ Goto("read_y")
  /\ reg_x' = value[1]
  /\ UNCHANGED <<hwcur, defined, counts, should_be_hidden, reg_y, on, at, server, args>>

ReadY ==
  /\ pc = "read_y" /\ Goto("write_y")
  /\ value' = <<value[1], y>>
  /\ UNCHANGED <<hwcur, defined, counts, should_be_hidden, regs, server,
                 ret, visible, force, region, level>>

WriteY ==
  /\ pc = "write_y" /\ Goto("write_on")
  /\ reg_y' = value[2]
  /\ UNCHANGED <<hwcur, defined, counts, should_be_hidden, reg_x, on, at, server, args>>

EnableVal ==
  IF force \/ ~Bypass2
  THEN IF visible THEN "SHOW" ELSE "HIDE"
  ELSE IF visible THEN "RESTORE_TO_FB" ELSE "REMOVE_FROM_FB"

WriteOn ==
  /\ pc = "write_on" /\ Goto(ret)
  /\ on' = EnableVal
  /\ at' = IF visible THEN <<reg_x, reg_y>> ELSE at
  /\ UNCHANGED <<hwcur, defined, counts, should_be_hidden, reg_x, reg_y, server, args>>

----------------------------------------------------------------------------
(* Requests that read the framebuffer (GetImage, CopyWindow, Composite) or *)
(* draw on it: the wrapper outside, the callbacks of shadowfb inside.      *)

Request(read, update) ==
  /\ pc = "idle" /\ vt /\ Goto("test_x")
  /\ region' = [l \in Levels |-> IF l = "read" THEN read ELSE update]
  /\ level' = "read"
  /\ UNCHANGED <<hwcur, defined, counts, should_be_hidden, regs, server,
                 ret, visible, force, value>>

(* BOX_INTERSECT looks at x first.                                         *)
TestX ==
  /\ pc = "test_x"
  /\ Goto(IF box[1] \in region[level].x THEN "test_y" ELSE "tested")
  /\ UNCHANGED <<hwcur, defined, counts, should_be_hidden, regs, server, args>>

TestY ==
  /\ pc = "test_y"
  /\ Goto(IF box[2] \in region[level].y THEN "pre" ELSE "tested")
  /\ UNCHANGED <<hwcur, defined, counts, should_be_hidden, regs, server, args>>

(* PRE_OP_HIDE_CURSOR.                                                     *)
Pre ==
  /\ pc = "pre"
  /\ excluded' = [excluded EXCEPT ![level] = TRUE]
  /\ IF ~excluded[level] /\ defined /\ vt
     THEN /\ sema' = sema + 1
          /\ IF sema = 0 THEN WriteCursorRegs(FALSE, FALSE, "tested")
                         ELSE Goto("tested") /\ UNCHANGED args
     ELSE Goto("tested") /\ UNCHANGED <<sema, args>>
  /\ UNCHANGED <<hwcur, defined, should_be_hidden, regs, server>>

Tested ==
  /\ pc = "tested"
  /\ IF level = "read" THEN level' = "update" /\ Goto("test_x")
                       ELSE UNCHANGED level /\ Goto("draw")
  /\ UNCHANGED <<hwcur, defined, counts, should_be_hidden, regs, server,
                 ret, visible, force, value, region>>

Draw ==
  /\ pc = "draw" /\ Goto("post")
  /\ UNCHANGED <<hwcur, defined, counts, should_be_hidden, regs, server, args>>

(* POST_OP_SHOW_CURSOR, if decide says so.                                 *)
PostOp(decide, last) ==
  /\ pc = "post"
  /\ excluded' = [excluded EXCEPT ![level] = FALSE]
  /\ IF decide /\ defined /\ vt
     THEN /\ sema' = sema - 1
          /\ IF last /\ ~should_be_hidden
             THEN WriteCursorRegs(TRUE, FALSE, "posted")
             ELSE Goto("posted") /\ UNCHANGED args
     ELSE Goto("posted") /\ UNCHANGED <<sema, args>>
  /\ UNCHANGED <<hwcur, defined, should_be_hidden, regs, server>>

(* Mutants: the cursor is put back though it was not taken out; the count  *)
(* is tested before it is decremented.                                     *)
PostUnexcluded  == PostOp(TRUE, sema = 1)
PostTestsBefore == PostOp(excluded[level], sema = 0)

Post == PostOp(excluded[level], sema = 1)

Posted ==
  /\ pc = "posted"
  /\ IF level = "update" THEN level' = "read" /\ Goto("post")
                         ELSE UNCHANGED level /\ Goto("idle")
  /\ UNCHANGED <<hwcur, defined, counts, should_be_hidden, regs, server,
                 ret, visible, force, value, region>>

----------------------------------------------------------------------------
(* The server gives the cursor another shape or place (xf86SetCursor), or  *)
(* other colours.                                                          *)

(* RedefineCursor and vmwareLoadCursorARGB, up to the words in the FIFO.   *)
Redefine(then) ==
  /\ pc = "idle" /\ vt /\ Goto("defining")
  /\ defined' = FALSE
  /\ ret' = then
  /\ UNCHANGED <<hwcur, counts, should_be_hidden, regs, server, visible, force,
                 region, level>>

LoadCursor(px, py) == Redefine("set_x") /\ value' = <<px, py>>

SetCursorColors == up /\ Redefine("idle") /\ UNCHANGED value

(* The FIFO is synchronised.                                               *)
Define ==
  /\ pc = "defining" /\ Goto(ret)
  /\ defined' = TRUE
  /\ UNCHANGED <<hwcur, counts, should_be_hidden, regs, server, args>>

(* vmwareSetCursorPosition, called by the thread.                          *)
SetX ==
  /\ pc = "set_x" /\ Goto("set_y")
  /\ x' = value[1]
  /\ UNCHANGED <<y, box, defined, counts, should_be_hidden, regs, server, args>>

SetY ==
  /\ pc = "set_y" /\ Goto("set_box_x")
  /\ y' = value[2]
  /\ UNCHANGED <<x, box, defined, counts, should_be_hidden, regs, server, args>>

SetBoxX ==
  /\ pc = "set_box_x" /\ Goto("set_box_y")
  /\ box' = <<x, box[2]>>
  /\ UNCHANGED <<x, y, defined, counts, should_be_hidden, regs, server, args>>

SetBoxY ==
  /\ pc = "set_box_y" /\ Goto("position_set")
  /\ box' = <<box[1], y>>
  /\ UNCHANGED <<x, y, defined, counts, should_be_hidden, regs, server, args>>

(* vmwareShowCursor, as a part of the above and on its own.                *)
Show(from, then) ==
  /\ pc = from
  /\ should_be_hidden' = FALSE
  /\ IF sema = 0 /\ defined THEN WriteCursorRegs(TRUE, TRUE, then)
                            ELSE Goto(then) /\ UNCHANGED args
  /\ UNCHANGED <<hwcur, defined, counts, regs, server>>

ShowPosition == Show("position_set", "show")
ShowCursor   == Show("show", "installed")

(* From now on the server moves it.                                        *)
Installed ==
  /\ pc = "installed" /\ Goto("idle")
  /\ up' = TRUE
  /\ UNCHANGED <<hwcur, defined, counts, should_be_hidden, regs, vt, args>>

(* vmwareHideCursor; the server stops moving it after the call.            *)
HideCursor ==
  /\ pc = "idle" /\ up
  /\ IF defined THEN WriteCursorRegs(FALSE, TRUE, "hidden")
                ELSE Goto("hidden") /\ UNCHANGED args
  /\ UNCHANGED <<hwcur, defined, counts, should_be_hidden, regs, server>>

Hidden ==
  /\ pc = "hidden" /\ Goto("down")
  /\ should_be_hidden' = TRUE
  /\ UNCHANGED <<hwcur, defined, counts, regs, server, args>>

Down ==
  /\ pc = "down" /\ Goto("idle")
  /\ up' = FALSE
  /\ UNCHANGED <<hwcur, defined, counts, should_be_hidden, regs, vt, args>>

----------------------------------------------------------------------------
(* Modes and VTs.                                                          *)

(* VMWAREModeInit restores the registers from ModeReg, whose cursor fields *)
(* are 0 ...                                                               *)
ModeInit ==
  /\ pc = "idle" /\ Goto("mode")
  /\ reg_x' = 0 /\ reg_y' = 0 /\ on' = "HIDE"
  /\ UNCHANGED <<hwcur, defined, counts, should_be_hidden, at, up, args>>

SwitchMode == vt /\ ModeInit /\ UNCHANGED vt

(* The server has set vtSema.                                              *)
EnterVT == ~vt /\ ModeInit /\ vt' = TRUE

(* ... and vmwareCursorModeInit puts the cursor back.                      *)
CursorModeInit ==
  /\ pc = "mode"
  /\ IF defined THEN WriteCursorRegs(~should_be_hidden, TRUE, "idle")
                ELSE Goto("idle") /\ UNCHANGED args
  /\ UNCHANGED <<hwcur, defined, counts, should_be_hidden, regs, server>>

(* The server has hidden the cursor.  The registers are what they were     *)
(* before it.                                                              *)
LeaveVT(px, py, enable) ==
  /\ pc = "idle" /\ vt /\ ~up
  /\ vt' = FALSE
  /\ reg_x' = px /\ reg_y' = py /\ on' = enable /\ at' = <<px, py>>
  /\ UNCHANGED <<hwcur, defined, counts, should_be_hidden, up, pc, args>>

----------------------------------------------------------------------------
(* A mouse move: vmwareSetCursorPosition and vmwareShowCursor in the       *)
(* signal handler.                                                         *)

MoveIf(write, px, py) ==
  /\ up
  /\ x' = px /\ y' = py /\ box' = <<px, py>>
  /\ should_be_hidden' = FALSE
  /\ IF write THEN reg_x' = px /\ reg_y' = py /\ on' = "SHOW" /\ at' = <<px, py>>
              ELSE UNCHANGED regs
  /\ UNCHANGED <<defined, counts, server, pc, args>>

(* Mutants: the cursor is shown while it is excluded, or while it is being *)
(* defined.                                                                *)
MoveExcluded(px, py)  == MoveIf(defined, px, py)
MoveUndefined(px, py) == MoveIf(sema = 0, px, py)

Move(px, py) == MoveIf(sema = 0 /\ defined, px, py)

----------------------------------------------------------------------------
Thread ==
  \/ ReadX \/ WriteX \/ ReadY \/ WriteY \/ WriteOn
  \/ \E r, u \in Regions : Request(r, u)
  \/ TestX \/ TestY \/ Pre \/ Tested \/ Draw \/ Post \/ Posted
  \/ \E px \in Xs, py \in Ys : LoadCursor(px, py)
  \/ SetCursorColors \/ Define
  \/ SetX \/ SetY \/ SetBoxX \/ SetBoxY \/ ShowPosition \/ ShowCursor \/ Installed
  \/ HideCursor \/ Hidden \/ Down
  \/ SwitchMode \/ EnterVT \/ CursorModeInit
  \/ \E px \in Xs, py \in Ys, enable \in {"HIDE", "SHOW"} : LeaveVT(px, py, enable)

Handler == \E px \in Xs, py \in Ys : Move(px, py)

Next == Thread \/ Handler

Spec == Init /\ [][Next]_vars

----------------------------------------------------------------------------
(* Properties.                                                             *)

(* From the moment the driver took the cursor out of the framebuffer for a *)
(* request until the last callback puts it back, no mouse move and no      *)
(* inner callback shows it.                                                *)
OutOfSight == pc \in Drawing /\ sema > 0 => ~Shown

(* Whatever was interleaved, once the server is through with a request or  *)
(* a mode switch the cursor it moves is on the screen, and every exclusion *)
(* was undone.                                                             *)
ComesBack ==
  pc = "idle" =>
    /\ sema = 0 /\ \A l \in Levels : ~excluded[l]
    /\ up => Shown /\ ~should_be_hidden

(* "so that the definition preceeds any use of the cursor": while the      *)
(* cursor is being defined nothing shows or moves it on the screen.        *)
DefinedFirst ==
  [][ ~defined /\ vt /\ vt' => on' = "HIDE" \/ UNCHANGED <<on, at>> ]_vars

(* What is read from the framebuffer has no cursor in it.                  *)
NoCursorRead ==
  pc = "draw" /\ Shown =>
    ~(at[1] \in region["read"].x /\ at[2] \in region["read"].y)
=============================================================================
