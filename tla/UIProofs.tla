------------------------------- MODULE UIProofs -------------------------------
(***************************************************************************)
(* What holds of the display for any number of applications and a panel of *)
(* any size: what is lost or deleted twice is so by a cancel() in one of   *)
(* two places, LVGL only draws on a panel that was brought up, and what    *)
(* on_flush_cb() sends is the picture.                                     *)
(***************************************************************************)
EXTENDS UI, TLAPS

Labels == {"off", "setup", "loop", "delete", "clear", "create", "reset", "init", "on", "draw",
           "handler"}
Kinds  == {"panel", "io", "display", "lock"}

Types ==
    /\ lock \in {Worker, Nobody} /\ pc \in Labels
    /\ needInit \in BOOLEAN /\ panel \in {"null", "made", "gone"} /\ dirty \in BOOLEAN
    /\ made \in [Kinds -> Int]
    /\ cut \in [{"clear", "create"} -> Nat]
    /\ hw \in {"down", "reset", "inited", "on"}
    /\ picture \subseteq Pixels
    /\ life \in {"alive", "aborted", "corrupt", "two displays"}

\* The worker has the lock while LVGL runs, and only then.
LockInv == lock = Worker <=> pc = "handler"

\* How far the panel is while it is brought up, and that nobody else does that.
PanelInv ==
    /\ pc \in {"delete", "clear", "create", "reset", "init", "on"} => needInit
    /\ pc = "clear" => panel = "gone"
    /\ pc = "create" => panel = "null"
    /\ pc \in {"reset", "init", "on"} => panel = "made"
    /\ pc = "reset" => hw = "down"
    /\ pc = "init" => hw = "reset"
    /\ pc = "on" => hw = "inited"

\* need_init_ is false of a ready panel only, also when nothing was cancelled in time.
ReadyInv ==
    /\ life = "alive" /\ ~needInit => panel = "made" /\ hw = "on"
    /\ pc = "draw" => ~needInit
    /\ pc = "handler" /\ dirty => ~needInit
    /\ life # "alive" => pc = "off"

DrawInv == Types /\ LockInv /\ PanelInv /\ ReadyInv

\* What was made is counted, and what panel_ names is known.
OwnedInv ==
    /\ made["panel"] = cut["create"] + IF panel = "made" THEN 1 ELSE 0
    /\ panel = "gone" => pc = "clear" \/ cut["clear"] > 0
    /\ life = "corrupt" => cut["clear"] > 0
    /\ made["io"] >= 0
    /\ made["display"] = made["io"] - IF life = "aborted" /\ made["io"] > 0 THEN 1 ELSE 0
    /\ made["lock"] = 1

-----------------------------------------------------------------------------
USE OwnersAssumption, WidthAssumption, HeightAssumption

Unmoved == UNCHANGED <<lock, pc, needInit, panel, made, cut, hw, life>>

\* What an application or the world does is nothing to the panel; a change needs the
\* lock.
LEMMA OthersUnmoved ==
    ASSUME Disturb \/ \E a \in Apps : Ask(a) \/ \E new \in Pictures : Change(a, new)
    PROVE  /\ Unmoved
           /\ dirty' # dirty \/ picture' # picture => lock = Nobody /\ dirty' = TRUE
           /\ picture' = picture \/ picture' \in Pictures
    BY DEF Disturb, Ask, Change, lvgl, owned, Unmoved

LEMMA PicturesInside == ASSUME NEW new \in Pictures PROVE new \subseteq Pixels
    BY DEF Pictures, Dots

\* The counts stay counts.
LEMMA MadeTypes ==
    ASSUME made \in [Kinds -> Int]
    PROVE  /\ InitializeLvgl(CreateIo(made)) \in [Kinds -> Int]
           /\ [made EXCEPT !["panel"] = WithoutOld(@)] \in [Kinds -> Int]
           /\ [made EXCEPT !["panel"] = @ + 1] \in [Kinds -> Int]
           /\ [made EXCEPT !["display"] = IF @ > 0 THEN @ - 1 ELSE @] \in [Kinds -> Int]
<1>1. CreateIo(made) \in [Kinds -> Int]
    BY DEF Kinds, CreateIo
<1>2. InitializeLvgl(CreateIo(made)) \in [Kinds -> Int]
    BY <1>1 DEF Kinds, InitializeLvgl
<1> QED
    BY <1>2 DEF Kinds, WithoutOld

LEMMA CutTypes ==
    ASSUME cut \in [{"clear", "create"} -> Nat], NEW window \in {"clear", "create"}
    PROVE  [cut EXCEPT ![window] = @ + 1] \in [{"clear", "create"} -> Nat]
    OBVIOUS

LEMMA TypesStep == ASSUME Types, [Next]_vars PROVE Types'
<1> USE DEF Types, Labels, At, Goto, lvgl, owned
<1>1. CASE Start
    BY <1>1 DEF Start
<1>2. CASE SetUp
    <2>1. made' \in [Kinds -> Int]
        BY <1>2, MadeTypes DEF SetUp
    <2> QED
        BY <1>2, <2>1 DEF SetUp
<1>3. CASE Loop
    BY <1>3 DEF Loop, AfterCheck
<1>4. CASE DeletePanel
    <2>1. made' \in [Kinds -> Int]
        BY <1>4, MadeTypes DEF DeletePanel
    <2> QED
        BY <1>4, <2>1 DEF DeletePanel
<1>5. CASE ClearPanel
    BY <1>5 DEF ClearPanel
<1>6. CASE CreatePanel
    <2>1. made' \in [Kinds -> Int]
        BY <1>6, MadeTypes DEF CreatePanel
    <2> QED
        BY <1>6, <2>1 DEF CreatePanel
<1>7. CASE ResetPanel \/ InitPanel
    BY <1>7 DEF ResetPanel, InitPanel, BringUp, Raised, StartOver
<1>8. CASE SwitchOn
    BY <1>8 DEF SwitchOn, Raised, StartOver
<1>9. CASE EnterHandler \/ LeaveHandler
    BY <1>9 DEF EnterHandler, LeaveHandler
<1>10. CASE Flush
    BY <1>10 DEF Flush
<1>11. CASE Cancel
    <2>1. made' \in [Kinds -> Int] /\ cut' \in [{"clear", "create"} -> Nat]
        <3>1. made' \in [Kinds -> Int]
            BY <1>11, MadeTypes DEF Cancel
        <3>2. cut' \in [{"clear", "create"} -> Nat]
            BY <1>11, CutTypes DEF Cancel
        <3> QED
            BY <3>1, <3>2
    <2>2. lock' = lock /\ needInit' = needInit /\ panel' = panel /\ dirty' = dirty
        BY <1>11 DEF Cancel
    <2>3. hw' = hw /\ picture' = picture /\ life' = life /\ pc' = "off"
        BY <1>11 DEF Cancel
    <2> QED
        BY <2>1, <2>2, <2>3
<1>12. CASE Destroy
    <2>1. made' \in [Kinds -> Int]
        BY <1>12, MadeTypes DEF Destroy
    <2> QED
        BY <1>12, <2>1 DEF Destroy
<1>13. CASE Disturb \/ \E a \in Apps : Ask(a) \/ \E new \in Pictures : Change(a, new)
    <2>1. dirty' \in BOOLEAN /\ picture' \subseteq Pixels
        BY <1>13, OthersUnmoved, PicturesInside
    <2> QED
        BY <1>13, <2>1, OthersUnmoved DEF Unmoved
<1>14. CASE UNCHANGED vars
    BY <1>14 DEF vars
<1> QED
    BY <1>1, <1>2, <1>3, <1>4, <1>5, <1>6, <1>7, <1>8, <1>9, <1>10, <1>11, <1>12, <1>13, <1>14
       DEF Next, Run

LEMMA DrawStep == ASSUME DrawInv, [Next]_vars PROVE DrawInv'
<1> USE DEF DrawInv, LockInv, PanelInv, ReadyInv, At, Goto
<1>0. Types' /\ Types
    BY TypesStep
<1>1. CASE Start
    BY <1>0, <1>1 DEF Start, lvgl, owned
<1>2. CASE SetUp
    BY <1>0, <1>2 DEF SetUp
<1>3. CASE Loop
    BY <1>0, <1>3 DEF Loop, AfterCheck, lvgl, owned
<1>4. CASE DeletePanel
    BY <1>0, <1>4 DEF DeletePanel, lvgl, Types
<1>5. CASE ClearPanel \/ CreatePanel
    BY <1>0, <1>5 DEF ClearPanel, CreatePanel, lvgl
<1>6. CASE ResetPanel
    BY <1>0, <1>6 DEF ResetPanel, BringUp, Raised, StartOver, lvgl, owned
<1>7. CASE InitPanel
    BY <1>0, <1>7 DEF InitPanel, BringUp, Raised, StartOver, lvgl, owned
<1>8. CASE SwitchOn
    BY <1>0, <1>8 DEF SwitchOn, Raised, StartOver, lvgl, owned
<1>9. CASE EnterHandler
    BY <1>0, <1>9 DEF EnterHandler, lvgl, owned
<1>10. CASE Flush
    BY <1>0, <1>10 DEF Flush, owned
<1>11. CASE LeaveHandler
    BY <1>0, <1>11 DEF LeaveHandler, lvgl, owned
<1>12. CASE Cancel
    BY <1>0, <1>12 DEF Cancel, lvgl
<1>13. CASE Destroy
    BY <1>0, <1>13 DEF Destroy, lvgl
<1>14. CASE Disturb \/ \E a \in Apps : Ask(a) \/ \E new \in Pictures : Change(a, new)
    <2>1. pc = "handler" => dirty' = dirty
        BY <1>14, OthersUnmoved
    <2>2. UNCHANGED <<lock, pc, needInit, panel, hw, life>>
        BY <1>14, OthersUnmoved DEF Unmoved
    <2> QED
        BY <1>0, <2>1, <2>2
<1>15. CASE UNCHANGED vars
    BY <1>0, <1>15 DEF vars, lvgl, owned
<1> QED
    BY <1>1, <1>2, <1>3, <1>4, <1>5, <1>6, <1>7, <1>8, <1>9, <1>10, <1>11, <1>12, <1>13, <1>14,
       <1>15 DEF Next, Run

LEMMA OwnedStep == ASSUME DrawInv, OwnedInv, [Next]_vars PROVE OwnedInv'
<1> USE DEF OwnedInv, At, Goto
<1>0. /\ PanelInv /\ ReadyInv /\ made \in [Kinds -> Int]
      /\ made["panel"] \in Int /\ made["io"] \in Int /\ made["display"] \in Int
      /\ cut \in [{"clear", "create"} -> Nat] /\ cut["clear"] \in Nat /\ cut["create"] \in Nat
      /\ panel \in {"null", "made", "gone"}
    BY DEF DrawInv, Types, Kinds
<1> USE <1>0
<1>1. CASE SetUp
    <2>1. CASE made' = made
        BY <1>1, <2>1 DEF SetUp
    <2>2. CASE made' = InitializeLvgl(CreateIo(made))
        <3>1. /\ made'["panel"] = made["panel"] /\ made'["lock"] = made["lock"]
              /\ made'["io"] = made["io"] + 1 /\ made'["display"] = made["display"] + 1
            BY <2>2 DEF Kinds, InitializeLvgl, CreateIo
        <3>2. UNCHANGED <<life, panel, cut>> /\ life = "alive" /\ pc # "clear"
            BY <1>1 DEF SetUp, ReadyInv
        <3> QED
            BY <3>1, <3>2
    <2> QED
        BY <1>1, <2>1, <2>2 DEF SetUp
<1>2. CASE DeletePanel
    <2>1. CASE panel = "made"
        <3>1. /\ made'["panel"] = made["panel"] - 1 /\ made'["lock"] = made["lock"]
              /\ made'["io"] = made["io"] /\ made'["display"] = made["display"]
            BY <1>2, <2>1 DEF DeletePanel, WithoutOld, Kinds
        <3>2. UNCHANGED <<life, cut>> /\ panel' = "gone" /\ pc' = "clear"
            BY <1>2, <2>1 DEF DeletePanel
        <3> QED
            BY <2>1, <3>1, <3>2
    <2>2. CASE panel # "made"
        <3>1. UNCHANGED <<made, panel, cut>> /\ life = "alive" /\ pc = "delete"
            BY <1>2, <2>2 DEF DeletePanel, ReadyInv
        <3>2. life' = life \/ (life' = "corrupt" /\ panel = "gone")
            BY <1>2, <2>2 DEF DeletePanel
        <3> QED
            BY <3>1, <3>2
    <2> QED
        BY <2>1, <2>2
<1>3. CASE ClearPanel
    BY <1>3 DEF ClearPanel, PanelInv
<1>4. CASE CreatePanel
    <2>1. CASE UNCHANGED <<made, panel>>
        BY <1>4, <2>1 DEF CreatePanel, PanelInv
    <2>2. CASE panel' = "made" /\ made' = [made EXCEPT !["panel"] = @ + 1]
        <3>1. /\ made'["panel"] = made["panel"] + 1 /\ made'["lock"] = made["lock"]
              /\ made'["io"] = made["io"] /\ made'["display"] = made["display"]
            BY <2>2 DEF Kinds
        <3>2. UNCHANGED <<life, cut>> /\ panel = "null"
            BY <1>4 DEF CreatePanel, PanelInv
        <3> QED
            BY <2>2, <3>1, <3>2
    <2> QED
        BY <1>4, <2>1, <2>2 DEF CreatePanel
<1>5. CASE Cancel
    <2>1. UNCHANGED <<life, panel>> /\ life = "alive"
        BY <1>5 DEF Cancel, ReadyInv
    <2>2. CASE pc = "create" /\ made' = [made EXCEPT !["panel"] = @ + 1]
                             /\ cut' = [cut EXCEPT !["create"] = @ + 1]
        <3>1. /\ made'["panel"] = made["panel"] + 1 /\ made'["lock"] = made["lock"]
              /\ made'["io"] = made["io"] /\ made'["display"] = made["display"]
              /\ cut'["create"] = cut["create"] + 1 /\ cut'["clear"] = cut["clear"]
            BY <2>2 DEF Kinds
        <3> QED
            BY <2>1, <2>2, <3>1
    <2>3. CASE made' = made /\ cut' = [cut EXCEPT !["clear"] = @ + 1]
        <3>1. cut'["create"] = cut["create"] /\ cut'["clear"] = cut["clear"] + 1
            BY <2>3
        <3> QED
            BY <2>1, <2>3, <3>1
    <2>4. CASE pc # "clear" /\ UNCHANGED <<made, cut>>
        BY <2>1, <2>4
    <2> QED
        BY <1>5, <2>2, <2>3, <2>4 DEF Cancel
<1>6. CASE Destroy
    <2>1. /\ made'["panel"] = made["panel"] /\ made'["lock"] = made["lock"]
          /\ made'["io"] = made["io"]
          /\ made'["display"] = IF made["display"] > 0 THEN made["display"] - 1
                                                        ELSE made["display"]
        BY <1>6 DEF Destroy, Kinds
    <2>2. UNCHANGED <<pc, panel, cut>> /\ life = "alive" /\ life' = "aborted"
        BY <1>6 DEF Destroy
    <2> QED
        BY <2>1, <2>2
<1>7. CASE EnterHandler
    BY <1>7 DEF EnterHandler, owned, ReadyInv
<1>8. CASE Start \/ Loop \/ ResetPanel \/ InitPanel \/ SwitchOn \/ Flush \/ LeaveHandler
    <2>1. UNCHANGED <<made, cut, panel, life>> /\ pc # "clear"
        BY <1>8 DEF Start, Loop, ResetPanel, InitPanel, BringUp, SwitchOn, Flush, LeaveHandler, owned
    <2> QED
        BY <2>1
<1>9. CASE Disturb \/ \E a \in Apps : Ask(a) \/ \E new \in Pictures : Change(a, new)
    <2>1. UNCHANGED <<pc, panel, made, cut, life>>
        BY <1>9, OthersUnmoved DEF Unmoved
    <2> QED
        BY <2>1
<1>10. CASE UNCHANGED vars
    BY <1>10 DEF vars, owned
<1> QED
    BY <1>1, <1>2, <1>3, <1>4, <1>5, <1>6, <1>7, <1>8, <1>9, <1>10 DEF Next, Run

LEMMA InitInv == Init => DrawInv /\ OwnedInv
<1> SUFFICES ASSUME Init PROVE DrawInv /\ OwnedInv
    OBVIOUS
<1>1. /\ made \in [Kinds -> Int] /\ cut \in [{"clear", "create"} -> Nat]
      /\ made["panel"] = 0 /\ made["io"] = 0 /\ made["display"] = 0 /\ made["lock"] = 1
      /\ cut["create"] = 0
    BY DEF Init, Kinds
<1>2. Types
    BY <1>1 DEF Init, Types, Labels
<1> QED
    BY <1>1, <1>2
       DEF Init, DrawInv, LockInv, PanelInv, ReadyInv, OwnedInv, Kinds

-----------------------------------------------------------------------------
(* From LVGL's bits to the panel's *)

\* The place of a thing in rows of a width tells its row and its column.
LEMMA SamePlace ==
    ASSUME NEW w \in Nat, NEW i \in Int, NEW j \in Int, NEW x \in 0 .. w - 1, NEW y \in 0 .. w - 1,
           w * i + x = w * j + y
    PROVE  i = j /\ x = y
<1>1. ASSUME NEW k \in Int, NEW l \in Int, k < l, NEW p \in 0 .. w - 1, NEW q \in 0 .. w - 1,
             w * k + p = w * l + q
      PROVE  FALSE
    <2> DEFINE d == l - k - 1
    <2>1. d \in Nat /\ l = k + 1 + d
        BY <1>1
    <2>2. w * l = w * k + w + w * d
        BY <2>1
    <2>3. w * d \in Nat
        BY <2>1
    <2>4. w * k \in Int
        OBVIOUS
    <2> HIDE DEF d
    <2> QED
        BY <1>1, <2>2, <2>3, <2>4
<1>2. ~(i < j) /\ ~(j < i)
    BY <1>1
<1>3. i = j
    BY <1>2
<1> QED
    BY <1>3

\* No two pixels share a bit of LVGL's buffer, and none of the panel's.
LEMMA InRowInjective ==
    ASSUME NEW p \in Pixels, NEW q \in Pixels, InRow(p) = InRow(q)
    PROVE  p = q
<1> DEFINE w == Width \div 8
<1>1. /\ p = <<p[1], p[2]>> /\ q = <<q[1], q[2]>>
      /\ p[1] \in 0 .. Width - 1 /\ p[2] \in Int /\ q[1] \in 0 .. Width - 1 /\ q[2] \in Int
    BY DEF Pixels
<1>2. w \in Nat /\ Width = 8 * w
    OBVIOUS
<1>3. p[1] \div 8 \in 0 .. w - 1 /\ q[1] \div 8 \in 0 .. w - 1
    BY <1>1, <1>2
<1>4. w * p[2] + p[1] \div 8 = w * q[2] + q[1] \div 8 /\ 7 - (p[1] % 8) = 7 - (q[1] % 8)
    BY DEF InRow
<1>5. p[2] = q[2] /\ p[1] \div 8 = q[1] \div 8
    <2> HIDE DEF w
    <2> QED
        BY <1>1, <1>2, <1>3, <1>4, SamePlace
<1>6. p[1] = q[1]
    BY <1>1, <1>4, <1>5
<1> QED
    BY <1>1, <1>5, <1>6

LEMMA InPageInjective ==
    ASSUME NEW p \in Pixels, NEW q \in Pixels, InPage(p) = InPage(q)
    PROVE  p = q
<1>1. /\ p = <<p[1], p[2]>> /\ q = <<q[1], q[2]>>
      /\ p[1] \in 0 .. Width - 1 /\ p[2] \in Int /\ q[1] \in 0 .. Width - 1 /\ q[2] \in Int
    BY DEF Pixels
<1>2. Width * (p[2] \div 8) + p[1] = Width * (q[2] \div 8) + q[1] /\ p[2] % 8 = q[2] % 8
    BY DEF InPage
<1>3. p[2] \div 8 \in Int /\ q[2] \div 8 \in Int
    BY <1>1
<1>4. p[2] \div 8 = q[2] \div 8 /\ p[1] = q[1]
    BY <1>1, <1>2, <1>3, SamePlace
<1>5. p[2] = q[2]
    BY <1>1, <1>2, <1>4
<1> QED
    BY <1>1, <1>4, <1>5

\* on_flush_cb() keeps every pixel and adds none, for any width and height.
LEMMA RemapIsExact == ASSUME picture \subseteq Pixels PROVE Displayed(Remapped) = picture
<1>1. \A p \in Pixels : SourceBit(p) = InRow(p)
    BY DEF SourceBit, InRow
<1>2. \A q \in Pixels : SourceBit(q) \in Rendered <=> q \in picture
    BY <1>1, InRowInjective DEF Rendered
<1>3. \A p \in Pixels : InPage(p) \in Remapped <=> p \in picture
    BY <1>2, InPageInjective DEF Remapped
<1> QED
    BY <1>3 DEF Displayed, InPage

\* What the panel shows when LVGL's picture was sent.
Sent == At("handler") /\ dirty /\ ~dirty' /\ ~needInit'

LEMMA SentIsShown == ASSUME DrawInv, [Next]_vars, Sent PROVE shown' = picture
<1>1. Flush
    BY DEF Sent, Next, Run, Start, SetUp, Loop, DeletePanel, ClearPanel, CreatePanel, ResetPanel, InitPanel, BringUp, SwitchOn,
           EnterHandler, LeaveHandler, Cancel, Destroy, Disturb, Ask, Change, vars, lvgl, At
<1>2. hw = "on"
    BY DEF Sent, DrawInv, ReadyInv, At, Types
<1> QED
    BY <1>1, <1>2, RemapIsExact DEF Sent, Flush, DrawInv, Types

-----------------------------------------------------------------------------
LEMMA DrawInvariance == Spec => []DrawInv
    BY InitInv, DrawStep, PTL DEF Spec

\* lv_timer_handler() flushes only to a panel that exists and that was reset,
\* initialised and switched on since its last failure, though transfers fail at any
\* point, the worker is cancelled at any point outside the lock, and started again.
THEOREM PanelIsReady == Spec => []FlushesToReadyPanel
<1>1. DrawInv => FlushesToReadyPanel
    BY DEF DrawInv, ReadyInv, Types, FlushesToReadyPanel, At
<1> QED
    BY <1>1, DrawInvariance, PTL

\* Every retry deletes the panel of the try before, through failures, cancels and
\* restarts, and no panel is lost or deleted twice but by a cancel() within
\* create_panel() or between the deletion of a panel and the reset of panel_.  The
\* destructor gives back a display and no more: it aborts on the tick timer.
THEOREM LossesAreNamed == Spec => []OnlyNamedLosses
<1>1. DrawInv /\ OwnedInv /\ [Next]_vars => OwnedInv'
    BY OwnedStep
<1>2. OwnedInv => OnlyNamedLosses
    BY DEF OwnedInv, OnlyNamedLosses, At
<1> QED
    BY InitInv, DrawInvariance, <1>1, <1>2, PTL DEF Spec

\* A flush that succeeds leaves the picture on the panel, pixel for pixel, for every
\* width and height that are multiples of 8: on_flush_cb() turns rows of bits into
\* pages of columns, and the panel is on.
THEOREM PictureIsShown == Spec => [][Sent => shown' = picture]_vars
<1>1. DrawInv /\ [Next]_vars => [Sent => shown' = picture]_vars
    BY SentIsShown
<1> QED
    BY <1>1, DrawInvariance, PTL DEF Spec
=============================================================================
