------------------------ MODULE VmwareCursor_proofs ------------------------
(***************************************************************************)
(* A cursor that was taken out of the framebuffer stays out and comes back *)
(* after it, and none is shown while it is being defined: for every screen *)
(* and every region of a request.                                          *)
(***************************************************************************)
EXTENDS VmwareCursor, TLAPS

(* The thread is in a request.                                             *)
InRequest ==
  \/ pc \in Drawing
  \/ pc \in Writing /\ ret \in {"tested", "posted"}

(* The thread is in xf86SetCursor, the cursor defined.                     *)
Placing ==
  \/ pc \in {"set_x", "set_y", "set_box_x", "set_box_y", "position_set", "show",
             "installed"}
  \/ pc \in Writing /\ ret \in {"show", "installed"}

(* vmwareShowCursor has been called there.                                 *)
Shows ==
  \/ pc \in {"show", "installed"}
  \/ pc \in Writing /\ ret \in {"show", "installed"}

(* sema counts the exclusions, if the cursor is defined ...                *)
Counted ==
  /\ excluded["read"] /\ excluded["update"]
       => sema = IF defined /\ vt THEN 2 ELSE 0
  /\ (excluded["read"] <=> ~excluded["update"])
       => sema = IF defined /\ vt THEN 1 ELSE 0
  /\ ~excluded["read"] /\ ~excluded["update"] => sema = 0

(* ... and exclusions are nested: the callbacks of an update are inside    *)
(* the wrapper, and neither outlives the request.                          *)
Nested ==
  /\ ~InRequest => ~excluded["read"] /\ ~excluded["update"]
  /\ pc \in {"test_x", "test_y", "pre", "posted"} => ~excluded[level]
  /\ pc \in Writing /\ ret = "posted" => ~excluded[level]
  /\ InRequest /\ level = "read" => ~excluded["update"]

(* What vmwareWriteCursorRegs is called with, and that it is called for a  *)
(* defined cursor only.                                                    *)
Called ==
  pc \in Writing =>
    /\ defined
    /\ ret \in {"tested", "posted", "show", "installed", "hidden", "idle"}
    /\ ret = "tested" => ~visible /\ sema > 0
    /\ ret = "posted" => visible /\ sema = 0
    /\ ret \in {"show", "installed"} => visible
    /\ up /\ ret \notin {"tested", "hidden"} => visible

(* A cursor being placed is defined, and not hidden.                       *)
Placed ==
  /\ pc = "defining" => ret \in {"set_x", "idle"}
  /\ Placing => defined
  /\ Shows => ~should_be_hidden
  /\ pc \in {"show", "installed"} => Shown

(* A cursor the server moves is wanted, and is shown but where it is       *)
(* excluded or its registers are about to be written.                      *)
Moved ==
  up => /\ pc # "down" => ~should_be_hidden
        /\ defined \/ pc = "defining"
        /\ sema = 0 /\ pc \notin Writing \cup {"hidden", "down", "mode"} => Shown

(* The inductive invariant.                                                *)
IInv ==
  /\ TypeOK /\ OutOfSight
  /\ Counted /\ Nested /\ Called /\ Placed /\ Moved

(* Its parts but for the types.                                            *)
Parts == OutOfSight /\ Counted /\ Nested /\ Called /\ Placed /\ Moved

(* A fact about Booleans that the provers want stated.                     *)
LEMMA NegationBoolean == \A b \in BOOLEAN : (~b) \in BOOLEAN
OBVIOUS

(* Where the calls of vmwareWriteCursorRegs leave the thread.              *)
LEMMA WriteCursorRegsType ==
  ASSUME TypeOK, NEW show \in BOOLEAN, NEW forced \in BOOLEAN,
         NEW then \in Points \ Writing, WriteCursorRegs(show, forced, then)
  PROVE  /\ pc' \in Points /\ ret' \in Points \ Writing
         /\ visible' \in BOOLEAN /\ force' \in BOOLEAN
         /\ value' \in Xs \X Ys
         /\ region' \in [Levels -> [x : SUBSET Xs, y : SUBSET Ys]]
         /\ level' \in Levels
BY DEF TypeOK, WriteCursorRegs, Goto, Points, Writing

(* Exclusions are counted within bounds.                                   *)
LEMMA CountBound ==
  ASSUME IInv
  PROVE  /\ pc = "pre" /\ ~excluded[level] /\ defined /\ vt => sema + 1 \in 0 .. 2
         /\ pc = "post" /\ excluded[level] /\ defined /\ vt => sema - 1 \in 0 .. 2
BY DEF IInv, TypeOK, Levels, Counted, Nested, InRequest, Drawing

(* Every step keeps the types, given the count ...                         *)
LEMMA StepType == IInv /\ [Next]_vars => TypeOK'
<1> SUFFICES ASSUME IInv, [Next]_vars PROVE TypeOK'
  OBVIOUS
<1>0. TypeOK
  BY DEF IInv
<1> USE <1>0, CursorAssumption
    DEF TypeOK, Points, Drawing, Writing, Calling, Levels, Goto, hwcur, counts, regs,
        server, args
<1>1. ASSUME NEW r \in Regions, NEW u \in Regions, Request(r, u)
      PROVE  TypeOK'
  BY <1>1 DEF Request
<1>2. ASSUME NEW px \in Xs, NEW py \in Ys, LoadCursor(px, py)
      PROVE  TypeOK'
  BY <1>2 DEF LoadCursor, Redefine
<1>3. ASSUME NEW px \in Xs, NEW py \in Ys,
             NEW enable \in {"HIDE", "SHOW"},
             LeaveVT(px, py, enable)
      PROVE  TypeOK'
  BY <1>3 DEF LeaveVT
<1>4. ASSUME NEW px \in Xs, NEW py \in Ys, Move(px, py)
      PROVE  TypeOK'
  <2>1. <<px, py>> \in Xs \X Ys
    BY <1>4
  <2>2. /\ at' \in Xs \X Ys /\ reg_x' \in Xs /\ reg_y' \in Ys
        /\ on' \in {"HIDE", "SHOW", "REMOVE_FROM_FB", "RESTORE_TO_FB"}
    BY <1>4, <2>1 DEF Move, MoveIf
  <2>3. should_be_hidden' \in BOOLEAN
    BY <1>4, Zenon DEF Move, MoveIf
  <2> QED
    BY <1>4, <2>1, <2>2, <2>3 DEF Move, MoveIf
<1>5. CASE WriteX
  BY <1>5 DEF WriteX
<1>6. CASE ReadX
  BY <1>6 DEF ReadX
<1>7. CASE ReadY
  BY <1>7 DEF ReadY
<1>8. CASE WriteY
  BY <1>8 DEF WriteY
<1>9. CASE WriteOn
  BY <1>9 DEF WriteOn, EnableVal
<1>10. CASE TestX
  BY <1>10 DEF TestX
<1>11. CASE TestY
  BY <1>11 DEF TestY
<1>12. CASE Pre
  <2>1. sema' \in 0 .. 2 /\ excluded' \in [Levels -> BOOLEAN]
    BY <1>12, CountBound DEF Pre
  <2>2. WriteCursorRegs(FALSE, FALSE, "tested") \/ (pc' = "tested" /\ UNCHANGED args)
    BY <1>12 DEF Pre
  <2>3. CASE pc' = "tested" /\ UNCHANGED args
    BY <1>12, <2>1, <2>3 DEF Pre
  <2>4. CASE WriteCursorRegs(FALSE, FALSE, "tested")
    <3> HIDE DEF TypeOK, Points, Writing, Goto
    <3>1. "tested" \in Points \ Writing
      BY DEF Points, Writing, Drawing, Calling
    <3> QED
      BY <1>12, <2>1, <2>4, <3>1, WriteCursorRegsType DEF Pre, TypeOK
  <2> QED
    BY <2>2, <2>3, <2>4
<1>13. CASE Tested
  BY <1>13 DEF Tested
<1>14. CASE Draw
  BY <1>14 DEF Draw
<1>15. CASE Post
  <2>1. sema' \in 0 .. 2 /\ excluded' \in [Levels -> BOOLEAN]
    BY <1>15, CountBound DEF Post, PostOp
  <2>2. WriteCursorRegs(TRUE, FALSE, "posted") \/ (pc' = "posted" /\ UNCHANGED args)
    BY <1>15 DEF Post, PostOp
  <2>3. CASE pc' = "posted" /\ UNCHANGED args
    BY <1>15, <2>1, <2>3 DEF Post, PostOp
  <2>4. CASE WriteCursorRegs(TRUE, FALSE, "posted")
    <3> HIDE DEF TypeOK, Points, Writing, Goto
    <3>1. "posted" \in Points \ Writing
      BY DEF Points, Writing, Drawing, Calling
    <3> QED
      BY <1>15, <2>1, <2>4, <3>1, WriteCursorRegsType DEF Post, PostOp, TypeOK
  <2> QED
    BY <2>2, <2>3, <2>4
<1>16. CASE Posted
  BY <1>16 DEF Posted
<1>17. CASE SetCursorColors
  BY <1>17 DEF SetCursorColors, Redefine
<1>18. CASE Define
  BY <1>18 DEF Define
<1>19. CASE SetX
  BY <1>19 DEF SetX
<1>20. CASE SetY
  BY <1>20 DEF SetY
<1>21. CASE SetBoxX
  BY <1>21 DEF SetBoxX
<1>22. CASE SetBoxY
  BY <1>22 DEF SetBoxY
<1>23. CASE ShowPosition
  <2>1. CASE ~(sema = 0 /\ defined)
    <3>1. should_be_hidden' \in BOOLEAN
      BY <1>23, Zenon DEF ShowPosition, Show
    <3>2. pc' = "show" /\ UNCHANGED args
      BY <1>23, <2>1, Zenon DEF ShowPosition, Show, Goto
    <3> QED
      BY <1>23, <3>1, <3>2 DEF ShowPosition, Show
  <2>2. CASE sema = 0 /\ defined
    <3>1. WriteCursorRegs(TRUE, TRUE, "show")
      BY <1>23, <2>2 DEF ShowPosition, Show
    <3> HIDE DEF TypeOK, Points, Writing, Goto
    <3>2. "show" \in Points \ Writing
      BY DEF Points, Writing, Drawing, Calling
    <3> QED
      BY <1>23, <2>2, <3>1, <3>2, WriteCursorRegsType DEF ShowPosition, Show, TypeOK
  <2> QED
    BY <2>1, <2>2
<1>24. CASE ShowCursor
  <2>1. CASE ~(sema = 0 /\ defined)
    <3>1. should_be_hidden' \in BOOLEAN
      BY <1>24, Zenon DEF ShowCursor, Show
    <3>2. pc' = "installed" /\ UNCHANGED args
      BY <1>24, <2>1, Zenon DEF ShowCursor, Show, Goto
    <3> QED
      BY <1>24, <3>1, <3>2 DEF ShowCursor, Show
  <2>2. CASE sema = 0 /\ defined
    <3>1. WriteCursorRegs(TRUE, TRUE, "installed")
      BY <1>24, <2>2 DEF ShowCursor, Show
    <3> HIDE DEF TypeOK, Points, Writing, Goto
    <3>2. "installed" \in Points \ Writing
      BY DEF Points, Writing, Drawing, Calling
    <3> QED
      BY <1>24, <2>2, <3>1, <3>2, WriteCursorRegsType DEF ShowCursor, Show, TypeOK
  <2> QED
    BY <2>1, <2>2
<1>25. CASE Installed
  BY <1>25 DEF Installed
<1>26. CASE HideCursor
  <2>1. CASE ~defined
    BY <1>26, <2>1 DEF HideCursor
  <2>2. CASE defined
    <3>1. WriteCursorRegs(FALSE, TRUE, "hidden")
      BY <1>26, <2>2 DEF HideCursor
    <3> HIDE DEF TypeOK, Points, Writing, Goto
    <3>2. "hidden" \in Points \ Writing
      BY DEF Points, Writing, Drawing, Calling
    <3> QED
      BY <1>26, <2>2, <3>1, <3>2, WriteCursorRegsType DEF HideCursor, TypeOK
  <2> QED
    BY <2>1, <2>2
<1>27. CASE Hidden
  BY <1>27 DEF Hidden
<1>28. CASE Down
  <2>1. up' \in BOOLEAN
    BY <1>28, Zenon DEF Down
  <2> QED
    BY <1>28, <2>1 DEF Down
<1>29. CASE SwitchMode
  BY <1>29 DEF SwitchMode, ModeInit
<1>30. CASE EnterVT
  BY <1>30 DEF EnterVT, ModeInit
<1>31. CASE CursorModeInit
  <2>1. CASE ~defined
    BY <1>31, <2>1 DEF CursorModeInit
  <2>2. CASE defined
    <3>1. WriteCursorRegs(~should_be_hidden, TRUE, "idle")
      BY <1>31, <2>2 DEF CursorModeInit
    <3> HIDE DEF TypeOK, Points, Writing, Goto
    <3>2. "idle" \in Points \ Writing
      BY DEF Points, Writing, Drawing, Calling
    <3>3. (~should_be_hidden) \in BOOLEAN
      BY NegationBoolean
    <3> QED
      BY <1>31, <2>2, <3>1, <3>2, <3>3, WriteCursorRegsType DEF CursorModeInit, TypeOK
  <2> QED
    BY <2>1, <2>2
<1>32. CASE UNCHANGED vars
  BY <1>32 DEF vars
<1> QED
  BY <1>1, <1>2, <1>3, <1>4, <1>5, <1>6, <1>7, <1>8, <1>9, <1>10, <1>11,
     <1>12, <1>13, <1>14, <1>15, <1>16, <1>17, <1>18, <1>19, <1>20, <1>21, <1>22,
     <1>23, <1>24, <1>25, <1>26, <1>27, <1>28, <1>29, <1>30, <1>31, <1>32
  DEF Next, Thread, Handler

(* ... and the rest of the invariant.                                      *)
LEMMA StepParts == IInv /\ [Next]_vars => Parts'
<1> SUFFICES ASSUME IInv, [Next]_vars PROVE Parts'
  OBVIOUS
<1> USE CursorAssumption
    DEF IInv, Parts, TypeOK, OutOfSight, Shown, Points, Drawing, Writing, Calling,
        Levels, Counted, Nested, InRequest, Called, Placed, Placing, Shows, Moved, Goto,
        hwcur, counts, regs, server, args
<1>1. ASSUME NEW r \in Regions, NEW u \in Regions, Request(r, u)
      PROVE  Parts'
  BY <1>1 DEF Request
<1>2. ASSUME NEW px \in Xs, NEW py \in Ys, LoadCursor(px, py)
      PROVE  Parts'
  BY <1>2 DEF LoadCursor, Redefine
<1>3. ASSUME NEW px \in Xs, NEW py \in Ys,
             NEW enable \in {"HIDE", "SHOW"},
             LeaveVT(px, py, enable)
      PROVE  Parts'
  BY <1>3 DEF LeaveVT
<1>4. ASSUME NEW px \in Xs, NEW py \in Ys, Move(px, py)
      PROVE  Parts'
  BY <1>4 DEF Move, MoveIf
<1>5. CASE WriteX
  BY <1>5 DEF WriteX
<1>6. CASE ReadX
  BY <1>6 DEF ReadX
<1>7. CASE ReadY
  BY <1>7 DEF ReadY
<1>8. CASE WriteY
  BY <1>8 DEF WriteY
<1>9. CASE WriteOn
  <2>1. Shown' <=> visible
    BY <1>9, Zenon DEF WriteOn, EnableVal
  <2>2. /\ pc = "write_on" /\ pc' = ret
        /\ UNCHANGED <<hwcur, defined, counts, should_be_hidden, server, args>>
    BY <1>9 DEF WriteOn
  <2>3. ret \in {"tested", "posted", "show", "installed", "hidden", "idle"}
    BY <2>2
  <2>4. OutOfSight'
    BY <2>1, <2>2, <2>3
  <2>5. Counted' /\ Called'
    BY <2>2, <2>3
  <2>6. Nested'
    BY <2>2, <2>3
  <2>7. Placed'
    BY <2>1, <2>2, <2>3
  <2>8. Moved'
    BY <2>1, <2>2, <2>3
  <2> QED
    BY <2>4, <2>5, <2>6, <2>7, <2>8
<1>10. CASE TestX
  BY <1>10 DEF TestX
<1>11. CASE TestY
  BY <1>11 DEF TestY
<1>12. CASE Pre
  <2>1. CASE ~excluded[level] /\ defined /\ vt
    <3>1. OutOfSight' /\ Nested'
      BY <1>12, <2>1 DEF Pre, WriteCursorRegs
    <3>2. Counted'
      <4>1. /\ sema' = sema + 1 /\ excluded' = [excluded EXCEPT ![level] = TRUE]
            /\ UNCHANGED <<defined, vt>> /\ level \in Levels
        BY <1>12, <2>1 DEF Pre
      <4>2. CASE level = "read"
        <5>1. excluded'["read"] /\ excluded'["update"] = excluded["update"]
          BY <4>1, <4>2
        <5> QED
          BY <1>12, <2>1, <4>1, <4>2, <5>1 DEF Pre
      <4>3. CASE level = "update"
        <5>1. excluded'["update"] /\ excluded'["read"] = excluded["read"]
          BY <4>1, <4>3
        <5> QED
          BY <1>12, <2>1, <4>1, <4>3, <5>1 DEF Pre
      <4> QED
        BY <4>1, <4>2, <4>3
    <3>3. Called' /\ Placed'
      BY <1>12, <2>1 DEF Pre, WriteCursorRegs
    <3>4. Moved'
      BY <1>12, <2>1 DEF Pre, WriteCursorRegs
    <3> QED
      BY <3>1, <3>2, <3>3, <3>4
  <2>2. CASE ~(~excluded[level] /\ defined /\ vt)
    BY <1>12, <2>2 DEF Pre
  <2> QED
    BY <2>1, <2>2
<1>13. CASE Tested
  BY <1>13 DEF Tested
<1>14. CASE Draw
  BY <1>14 DEF Draw
<1>15. CASE Post
  <2>1. CASE excluded[level] /\ defined /\ vt
    <3>1. OutOfSight' /\ Nested'
      BY <1>15, <2>1 DEF Post, WriteCursorRegs, PostOp
    <3>2. Counted'
      <4>1. /\ sema' = sema - 1 /\ excluded' = [excluded EXCEPT ![level] = FALSE]
            /\ UNCHANGED <<defined, vt>> /\ level \in Levels
        BY <1>15, <2>1 DEF Post, PostOp
      <4>2. CASE level = "read"
        <5>1. ~excluded'["read"] /\ excluded'["update"] = excluded["update"]
          BY <4>1, <4>2
        <5> QED
          BY <1>15, <2>1, <4>1, <4>2, <5>1 DEF Post, PostOp
      <4>3. CASE level = "update"
        <5>1. ~excluded'["update"] /\ excluded'["read"] = excluded["read"]
          BY <4>1, <4>3
        <5> QED
          BY <1>15, <2>1, <4>1, <4>3, <5>1 DEF Post, PostOp
      <4> QED
        BY <4>1, <4>2, <4>3
    <3>3. Called' /\ Placed'
      BY <1>15, <2>1 DEF Post, WriteCursorRegs, PostOp
    <3>4. Moved'
      BY <1>15, <2>1 DEF Post, WriteCursorRegs, PostOp
    <3> QED
      BY <3>1, <3>2, <3>3, <3>4
  <2>2. CASE ~(excluded[level] /\ defined /\ vt)
    BY <1>15, <2>2 DEF Post, PostOp
  <2> QED
    BY <2>1, <2>2
<1>16. CASE Posted
  BY <1>16 DEF Posted
<1>17. CASE SetCursorColors
  BY <1>17 DEF SetCursorColors, Redefine
<1>18. CASE Define
  BY <1>18 DEF Define
<1>19. CASE SetX
  BY <1>19 DEF SetX
<1>20. CASE SetY
  BY <1>20 DEF SetY
<1>21. CASE SetBoxX
  BY <1>21 DEF SetBoxX
<1>22. CASE SetBoxY
  BY <1>22 DEF SetBoxY
<1>23. CASE ShowPosition
  BY <1>23 DEF ShowPosition, WriteCursorRegs, Show
<1>24. CASE ShowCursor
  BY <1>24 DEF ShowCursor, WriteCursorRegs, Show
<1>25. CASE Installed
  BY <1>25 DEF Installed
<1>26. CASE HideCursor
  BY <1>26 DEF HideCursor, WriteCursorRegs
<1>27. CASE Hidden
  BY <1>27 DEF Hidden
<1>28. CASE Down
  BY <1>28 DEF Down
<1>29. CASE SwitchMode
  BY <1>29 DEF SwitchMode, ModeInit
<1>30. CASE EnterVT
  BY <1>30 DEF EnterVT, ModeInit
<1>31. CASE CursorModeInit
  BY <1>31 DEF CursorModeInit, WriteCursorRegs
<1>32. CASE UNCHANGED vars
  BY <1>32 DEF vars
<1> QED
  BY <1>1, <1>2, <1>3, <1>4, <1>5, <1>6, <1>7, <1>8, <1>9, <1>10, <1>11,
     <1>12, <1>13, <1>14, <1>15, <1>16, <1>17, <1>18, <1>19, <1>20, <1>21, <1>22,
     <1>23, <1>24, <1>25, <1>26, <1>27, <1>28, <1>29, <1>30, <1>31, <1>32
  DEF Next, Thread, Handler

(* The screen after ScreenInit is in order.                                *)
LEMMA InitIInv == Init => IInv
<1>1. ASSUME Init PROVE TypeOK
  <2>1. /\ defined \in BOOLEAN /\ should_be_hidden \in BOOLEAN
        /\ vt \in BOOLEAN /\ up \in BOOLEAN
        /\ visible \in BOOLEAN /\ force \in BOOLEAN
        /\ excluded \in [Levels -> BOOLEAN]
    BY <1>1, Zenon DEF Init
  <2> QED
    BY <1>1, <2>1, CursorAssumption
    DEF Init, TypeOK, Points, Drawing, Writing, Calling, Levels
<1> QED
  BY <1>1
  DEF Init, IInv, OutOfSight, Shown, Drawing, Writing, Levels, Counted, Nested,
      InRequest, Called, Placed, Placing, Shows, Moved

(* The invariant is inductive.                                             *)
THEOREM CursorInvariant == Spec => []IInv
<1>1. IInv /\ [Next]_vars => IInv'
  BY StepType, StepParts DEF IInv, Parts
<1> QED
  BY InitIInv, <1>1, PTL DEF Spec

(* The types, for every screen.                                            *)
THEOREM CursorTypes == Spec => []TypeOK
<1>1. IInv => TypeOK
  BY DEF IInv
<1> QED
  BY CursorInvariant, <1>1, PTL

(* No mouse move shows a cursor that a request took out.                   *)
THEOREM CursorOutOfSight == Spec => []OutOfSight
<1>1. IInv => OutOfSight
  BY DEF IInv
<1> QED
  BY CursorInvariant, <1>1, PTL

(* After every request and mode switch the cursor is back.                 *)
THEOREM CursorComesBack == Spec => []ComesBack
<1>1. IInv => ComesBack
  BY DEF IInv, ComesBack, Counted, Nested, InRequest, Moved, Drawing, Writing, Levels
<1> QED
  BY CursorInvariant, <1>1, PTL

(* Nothing shows a cursor that is being defined: every path to the         *)
(* registers tests cursorDefined, and no definition starts on one.         *)
LEMMA StepDefined ==
  IInv /\ [Next]_vars =>
    [~defined /\ vt /\ vt' => on' = "HIDE" \/ UNCHANGED <<on, at>>]_vars
<1> SUFFICES ASSUME IInv, [Next]_vars, ~defined, vt, vt'
             PROVE  on' = "HIDE" \/ UNCHANGED <<on, at>>
  OBVIOUS
<1> USE DEF IInv, Called, Writing, regs
<1>1. ASSUME NEW r \in Regions, NEW u \in Regions, Request(r, u)
      PROVE  on' = "HIDE" \/ UNCHANGED <<on, at>>
  BY <1>1 DEF Request
<1>2. ASSUME NEW px \in Xs, NEW py \in Ys, LoadCursor(px, py)
      PROVE  on' = "HIDE" \/ UNCHANGED <<on, at>>
  BY <1>2 DEF LoadCursor, Redefine
<1>3. ASSUME NEW px \in Xs, NEW py \in Ys,
             NEW enable \in {"HIDE", "SHOW"},
             LeaveVT(px, py, enable)
      PROVE  on' = "HIDE" \/ UNCHANGED <<on, at>>
  BY <1>3 DEF LeaveVT
<1>4. ASSUME NEW px \in Xs, NEW py \in Ys, Move(px, py)
      PROVE  on' = "HIDE" \/ UNCHANGED <<on, at>>
  BY <1>4 DEF Move, MoveIf
<1>5. CASE WriteX
  BY <1>5 DEF WriteX
<1>6. CASE ReadX
  BY <1>6 DEF ReadX
<1>7. CASE ReadY
  BY <1>7 DEF ReadY
<1>8. CASE WriteY
  BY <1>8 DEF WriteY
<1>9. CASE WriteOn
  BY <1>9 DEF WriteOn, EnableVal
<1>10. CASE TestX
  BY <1>10 DEF TestX
<1>11. CASE TestY
  BY <1>11 DEF TestY
<1>12. CASE Pre
  BY <1>12 DEF Pre, WriteCursorRegs
<1>13. CASE Tested
  BY <1>13 DEF Tested
<1>14. CASE Draw
  BY <1>14 DEF Draw
<1>15. CASE Post
  BY <1>15 DEF Post, WriteCursorRegs, PostOp
<1>16. CASE Posted
  BY <1>16 DEF Posted
<1>17. CASE SetCursorColors
  BY <1>17 DEF SetCursorColors, Redefine
<1>18. CASE Define
  BY <1>18 DEF Define
<1>19. CASE SetX
  BY <1>19 DEF SetX
<1>20. CASE SetY
  BY <1>20 DEF SetY
<1>21. CASE SetBoxX
  BY <1>21 DEF SetBoxX
<1>22. CASE SetBoxY
  BY <1>22 DEF SetBoxY
<1>23. CASE ShowPosition
  BY <1>23 DEF ShowPosition, WriteCursorRegs, Show
<1>24. CASE ShowCursor
  BY <1>24 DEF ShowCursor, WriteCursorRegs, Show
<1>25. CASE Installed
  BY <1>25 DEF Installed
<1>26. CASE HideCursor
  BY <1>26 DEF HideCursor, WriteCursorRegs
<1>27. CASE Hidden
  BY <1>27 DEF Hidden
<1>28. CASE Down
  BY <1>28 DEF Down
<1>29. CASE SwitchMode
  BY <1>29 DEF SwitchMode, ModeInit
<1>30. CASE EnterVT
  BY <1>30 DEF EnterVT, ModeInit
<1>31. CASE CursorModeInit
  BY <1>31 DEF CursorModeInit, WriteCursorRegs
<1>32. CASE UNCHANGED vars
  BY <1>32 DEF vars
<1> QED
  BY <1>1, <1>2, <1>3, <1>4, <1>5, <1>6, <1>7, <1>8, <1>9, <1>10, <1>11,
     <1>12, <1>13, <1>14, <1>15, <1>16, <1>17, <1>18, <1>19, <1>20, <1>21, <1>22,
     <1>23, <1>24, <1>25, <1>26, <1>27, <1>28, <1>29, <1>30, <1>31, <1>32
  DEF Next, Thread, Handler

(* The definition precedes any use of the cursor.                          *)
THEOREM CursorDefinedFirst == Spec => DefinedFirst
BY CursorInvariant, StepDefined, PTL DEF Spec, DefinedFirst
=============================================================================
