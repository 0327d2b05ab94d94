--------------------------------- MODULE UI ---------------------------------
(***************************************************************************)
(* BaseUI and OledUI: a worker that initialises the panel until it         *)
(* answers, lets LVGL render what applications changed, and initialises    *)
(* the panel again when a picture could not be sent to it.  Applications   *)
(* change the picture under lock_.  Delays are not modelled.  running() is *)
(* true as long as the worker exists (see Runnable): only cancel() ends    *)
(* run().  The UI is the first of its program: its constructor has         *)
(* initialised LVGL and started LVGL's tick timer.                         *)
(***************************************************************************)
EXTENDS Integers

CONSTANTS
    Apps,        \* threads that change the picture
    Worker,      \* the task that executes run()
    Nobody,      \* the owner of a free lock_
    Width,       \* hres_
    Height,      \* vres_
    Noise,       \* what a panel shows that was not drawn on
    MaxSetUps    \* bound: how often run() may come to make an I/O handle

ASSUME OwnersAssumption ==
    Worker \notin Apps /\ Nobody \notin Apps \cup {Worker}
ASSUME WidthAssumption  == Width \in Nat /\ Width > 0 /\ Width % 8 = 0
ASSUME HeightAssumption == Height \in Nat /\ Height > 0 /\ Height % 8 = 0
ASSUME SetUpsAssumption == MaxSetUps \in Nat

VARIABLES
    lock,      \* lock_
    pc,        \* where the worker is; "off": there is none
    needInit,  \* need_init_
    panel,     \* panel_: "null", the panel that was "made", or one that is "gone"
    made,      \* how many panels, I/O handles, displays with buffers and locks exist
    cut,       \* how many cancels came while the worker was to "clear" panel_, and
               \* within its "create" of a panel that panel_ did not name yet
    hw,        \* how far the panel itself was brought since its last failure
    bad,       \* transfers to the panel may fail
    picture,   \* the dark pixels of the picture LVGL has
    dirty,     \* LVGL has to render
    flushing,  \* LVGL waits for lv_display_flush_ready()
    shown,     \* the dark pixels of the panel
    wants,     \* applications that wait for lock_
    life       \* "alive"; "aborted" by an ESP_ERROR_CHECK; "corrupt", when something
               \* was deleted twice; "two displays", where the model ends

lvgl == <<picture, dirty, flushing>>
owned == <<panel, made, cut>>
vars == <<lock, pc, needInit, owned, hw, bad, lvgl, shown, wants, life>>

Pixels   == (0 .. Width - 1) \X (0 .. Height - 1)
Dots     == {<<0, Height - 1>>, <<7, 8>>, <<Width - 1, 7>>} \cap Pixels
Pictures == {{}} \cup {{p} : p \in Dots}

Init ==
    /\ lock = Nobody /\ pc = "off" /\ needInit = TRUE /\ panel = "null"
    /\ made = [kind \in {"panel", "io", "display", "lock"} |-> IF kind = "lock" THEN 1 ELSE 0]
    /\ cut = [window \in {"clear", "create"} |-> 0]
    /\ hw = "down" /\ bad \in BOOLEAN
    /\ picture = {} /\ dirty = FALSE /\ flushing = FALSE
    /\ shown = Noise /\ wants = {} /\ life = "alive"

At(label) == pc = label
Goto(label) == pc' = label

-----------------------------------------------------------------------------
(* run() *)

Start ==
    /\ At("off") /\ life = "alive"
    /\ made["io"] < MaxSetUps
    /\ Goto("setup")
    /\ UNCHANGED <<lock, needInit, owned, hw, bad, lvgl, shown, wants, life>>

\* create_io() stores a handle, initialzie_lvgl() a display with its buffers, over
\* what an earlier run() stored.
CreateIo(m) == [m EXCEPT !["io"] = @ + 1]
InitializeLvgl(m) == [m EXCEPT !["display"] = @ + 1]

\* Both under the lock; when the first fails run() returns.  A new display is to be
\* rendered.
SetUp ==
    /\ At("setup") /\ lock = Nobody
    /\ \/ Goto("off") /\ lock' = Nobody /\ UNCHANGED <<made, dirty>>
       \/ /\ made' = InitializeLvgl(CreateIo(made))
          /\ dirty' = TRUE
          /\ Goto("loop") /\ UNCHANGED lock
    /\ UNCHANGED <<needInit, panel, cut, hw, bad, picture, flushing, shown, wants, life>>

AfterCheck(flag) == IF flag THEN "delete" ELSE "draw"

Loop ==
    /\ At("loop")
    /\ Goto(AfterCheck(needInit))
    /\ UNCHANGED <<lock, needInit, owned, hw, bad, lvgl, shown, wants, life>>

\* A panel of an earlier try is deleted.  Mutant: it is not.
KeepOld(count) == count
WithoutOld(count) == count - 1

DeletePanel ==
    /\ At("delete")
    /\ \/ panel = "null" /\ Goto("create") /\ UNCHANGED <<panel, made, life>>
       \/ /\ panel = "made"
          /\ made' = [made EXCEPT !["panel"] = WithoutOld(@)]
          /\ panel' = "gone" /\ Goto("clear") /\ UNCHANGED life
       \/ panel = "gone" /\ life' = "corrupt" /\ Goto("off") /\ UNCHANGED <<panel, made>>
    /\ UNCHANGED <<lock, needInit, cut, hw, bad, lvgl, shown, wants>>

ClearPanel ==
    /\ At("clear")
    /\ panel' = "null" /\ Goto("create")
    /\ UNCHANGED <<lock, needInit, made, cut, hw, bad, lvgl, shown, wants, life>>

\* The new panel may be there although create_panel() fails: inverting its colours did.
CreatePanel ==
    /\ At("create")
    /\ hw' = "down"
    /\ \/ /\ made' = [made EXCEPT !["panel"] = @ + 1]
          /\ panel' = "made"
          /\ \/ Goto("reset")
             \/ bad /\ Goto("delete")
       \/ bad /\ Goto("delete") /\ UNCHANGED <<made, panel>>
    /\ UNCHANGED <<lock, needInit, cut, bad, lvgl, shown, wants, life>>

\* esp_lcd_panel_reset() and _init(): a failure starts over.
\* Mutant: it is not noticed.
GoOn(next) == next
StartOver(next) == "delete"

\* The panel only takes a step after the one before.
Raised(from, to) == IF hw = from THEN to ELSE hw

BringUp(label, from, to, next) ==
    /\ At(label)
    /\ \/ Goto(next) /\ hw' = Raised(from, to)
       \/ bad /\ Goto(StartOver(next)) /\ UNCHANGED hw
    /\ UNCHANGED <<lock, needInit, owned, bad, lvgl, shown, wants, life>>

ResetPanel == BringUp("reset", "down", "reset", "init")
InitPanel  == BringUp("init", "reset", "inited", "on")

\* esp_lcd_panel_disp_on_off(), and configure_panel(), which sends the defaults
\* once more and ignores what comes of it.
SwitchOn ==
    /\ At("on")
    /\ \/ needInit' = FALSE /\ hw' = Raised("inited", "on") /\ shown' = Noise /\ Goto("loop")
       \/ bad /\ Goto(StartOver("loop")) /\ UNCHANGED <<needInit, hw, shown>>
    /\ UNCHANGED <<lock, owned, bad, lvgl, wants, life>>

\* With a display of an earlier run() too, LVGL is not modelled.
EnterHandler ==
    /\ At("draw") /\ lock = Nobody
    /\ \/ made["display"] = 1 /\ lock' = Worker /\ Goto("handler") /\ UNCHANGED life
       \/ made["display"] > 1 /\ life' = "two displays" /\ Goto("off") /\ UNCHANGED lock
    /\ UNCHANGED <<needInit, owned, hw, bad, lvgl, shown, wants>>

-----------------------------------------------------------------------------
(* lv_timer_handler() and OledUI::on_flush_cb() *)

\* LVGL's buffer: a row of pixels in a row of bytes, the first in the highest bit.
InRow(p) == <<(Width \div 8) * p[2] + p[1] \div 8, 7 - (p[1] % 8)>>
Rendered == {InRow(p) : p \in picture}

\* The panel's: a column of eight pixels in a byte, the top one in the lowest bit.
InPage(p) == <<Width * (p[2] \div 8) + p[1], p[2] % 8>>

\* on_flush_cb() looks for each pixel where LVGL put it.
\* Mutant: the bits of a byte are taken in the other order.
Mirrored(p) == <<(Width \div 8) * p[2] + p[1] \div 8, p[1] % 8>>
SourceBit(p) == <<(Width \div 8) * p[2] + p[1] \div 8, 7 - (p[1] % 8)>>

\* All of fb1_, its bits that are 0: LVGL renders full pictures.
Remapped == {InPage(p) : p \in {q \in Pixels : SourceBit(q) \in Rendered}}

\* What the panel makes of a buffer.
Displayed(bits) == {p \in Pixels : <<Width * (p[2] \div 8) + p[1], p[2] % 8>> \in bits}

\* Mutant: LVGL is not told when the picture could not be sent.
LeaveFlushing(f) == f
FlushReady(f) == FALSE

Flush ==
    /\ At("handler") /\ dirty
    /\ dirty' = FALSE
    /\ \/ /\ shown' = IF hw = "on" THEN Displayed(Remapped) ELSE shown
          /\ flushing' = FALSE
          /\ UNCHANGED <<needInit, hw>>
       \/ /\ bad
          /\ needInit' = TRUE /\ hw' = "down"
          /\ flushing' = FlushReady(TRUE)
          /\ UNCHANGED shown
    /\ UNCHANGED <<lock, pc, owned, bad, picture, wants, life>>

LeaveHandler ==
    /\ At("handler") /\ ~dirty /\ ~flushing
    /\ lock' = Nobody /\ Goto("loop")
    /\ UNCHANGED <<needInit, owned, hw, bad, lvgl, shown, wants, life>>

-----------------------------------------------------------------------------
(* The applications, the owner and the world *)

Ask(a) ==
    /\ made["display"] > 0 /\ life = "alive" /\ a \notin wants
    /\ wants' = wants \cup {a}
    /\ UNCHANGED <<lock, pc, needInit, owned, hw, bad, lvgl, shown, life>>

\* lock(), a change, unlock().
Change(a, new) ==
    /\ a \in wants /\ lock = Nobody
    /\ picture' = new /\ dirty' = TRUE
    /\ wants' = wants \ {a}
    /\ UNCHANGED <<lock, pc, needInit, owned, hw, bad, flushing, shown, life>>

\* The contract: not while the worker has the lock.  Within create_panel() the panel
\* may be there before panel_ names it.
Cancel ==
    /\ ~At("off") /\ lock # Worker
    /\ Goto("off")
    /\ \/ /\ At("create")
          /\ made' = [made EXCEPT !["panel"] = @ + 1] /\ cut' = [cut EXCEPT !["create"] = @ + 1]
       \/ At("clear") /\ cut' = [cut EXCEPT !["clear"] = @ + 1] /\ UNCHANGED made
       \/ ~At("clear") /\ UNCHANGED <<made, cut>>
    /\ UNCHANGED <<lock, needInit, panel, hw, bad, lvgl, shown, wants, life>>

\* ~BaseUI(), by contract without a worker and without users: buffers and display are
\* given back; to delete a timer that runs, as the tick timer does, is an error and
\* fatal, so that panel_ and panel_io_ are not come to.  lock_ is never closed.
Destroy ==
    /\ life = "alive" /\ At("off") /\ wants = {}
    /\ life' = "aborted"
    /\ made' = [made EXCEPT !["display"] = IF @ > 0 THEN @ - 1 ELSE @]
    /\ UNCHANGED <<lock, pc, needInit, panel, cut, hw, bad, lvgl, shown, wants>>

Disturb ==
    /\ bad' = ~bad
    /\ UNCHANGED <<lock, pc, needInit, owned, hw, lvgl, shown, wants, life>>

-----------------------------------------------------------------------------
Run ==
    \/ SetUp \/ Loop \/ DeletePanel \/ ClearPanel \/ CreatePanel \/ ResetPanel \/ InitPanel
    \/ SwitchOn \/ EnterHandler \/ Flush \/ LeaveHandler

Next ==
    \/ Run \/ Start \/ Cancel \/ Destroy \/ Disturb
    \/ \E a \in Apps : Ask(a) \/ \E new \in Pictures : Change(a, new)

\* The worker goes on; lock_ is handed to its waiters in turn.
Fairness ==
    /\ SF_vars(Run)
    /\ \A a \in Apps : SF_vars(\E new \in Pictures : Change(a, new))

Spec == Init /\ [][Next]_vars /\ Fairness

-----------------------------------------------------------------------------
(* Properties *)

\* Retries, cancels and restarts lose no panel and delete none twice: panel_ names the
\* one there is.  The exceptions are those of a cancel() within create_panel(), which
\* loses a panel, and of one between the deletion of the panel and the reset of panel_,
\* which leaves it to be deleted once more.  Each run() makes its display along with
\* its I/O handle; the destructor gives back one display and nothing else.
OnlyNamedLosses ==
    /\ made["panel"] = cut["create"] + IF panel = "made" THEN 1 ELSE 0
    /\ panel = "gone" => At("clear") \/ cut["clear"] > 0
    /\ life = "corrupt" => cut["clear"] > 0
    /\ made["display"] =
         made["io"] - IF life = "aborted" /\ made["io"] > 0 THEN 1 ELSE 0
    /\ made["lock"] = 1

\* LVGL flushes only to a panel that exists and that was reset, initialised and
\* switched on, all of it since its last failure.
FlushesToReadyPanel == At("handler") /\ dirty => panel = "made" /\ hw = "on"

\* An application that waits for lock_ gets it, also when a flush fails: LVGL waits
\* inside the lock until it is told.
AppsGetLock == \A a \in Apps : a \in wants ~> a \notin wants

\* When the panel answers for long enough and the picture goes on changing, the panel
\* shows it again and again, pixel for pixel, whatever failed before.
ChangesAppear ==
    <>[](~bad /\ ~At("off")) /\ []<>dirty => []<>(hw = "on" /\ shown = picture)
=============================================================================
