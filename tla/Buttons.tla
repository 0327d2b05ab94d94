------------------------------- MODULE Buttons -------------------------------
(***************************************************************************)
(* One Button: its pin, the edge interrupt (onButtonCb) that may run       *)
(* between any two steps of the timer task, and its esp_timer, whose       *)
(* callback (onTout) turns a press that lasts into events.  Delays are not *)
(* modelled: a timer that is armed may fire at any time.                   *)
(***************************************************************************)
EXTENDS Naturals

PressLabels  == {"press_stop", "press_start", "press_emit", "press_set"}
FirstLabels  == {"first_stop", "first_start", "first_emit"}
RepeatLabels == FirstLabels \cup {"repeat_emit"}
Labels       == {"none", "fired"} \cup PressLabels \cup RepeatLabels

RELEASED == 0
PRESSED  == 1
REPEATED == 2

VARIABLES
    pin,      \* the level, 1 while the button is held down
    edge,     \* an edge interrupt is pending; edges that come together are one
    timer,    \* the esp_timer: "off", "once" or "periodic"
    cb,       \* where the timer task is inside onTout()
    st,       \* Button::_state
    stamp,    \* which of _pressedAt and _releasedAt are set (not 0)
    last,     \* history: the last event the user got
    inOrder,  \* history: that event came after one that may precede it
    cuts,     \* history: what edges cut into, since a RELEASE came between callbacks
    abort,    \* an ESP_ERROR_CHECK failed
    alive     \* the Button is not deleted

vars == <<pin, edge, timer, cb, st, stamp, last, inOrder, cuts, abort, alive>>

Events == {"PRESS", "FIRST_REPEAT", "REPEAT", "RELEASE"}

Harms  == {"press", "repeat", "arming"}

TypeOK ==
    /\ pin \in 0 .. 1 /\ edge \in BOOLEAN
    /\ timer \in {"off", "once", "periodic"}
    /\ cb \in Labels
    /\ st \in {RELEASED, PRESSED, REPEATED}
    /\ stamp \subseteq {"pressed", "released"}
    /\ last \in Events \cup {"none"}
    /\ cuts \subseteq Harms
    /\ inOrder \in BOOLEAN /\ abort \in BOOLEAN /\ alive \in BOOLEAN

Init ==
    /\ pin = 0 /\ edge = FALSE /\ timer = "off" /\ cb = "none"
    /\ st = RELEASED /\ last = "none"
    /\ stamp \in {{}, {"released"}}     \* the constructor leaves _releasedAt unset
    /\ inOrder = TRUE /\ cuts = {} /\ abort = FALSE /\ alive = TRUE

-----------------------------------------------------------------------------
MayPrecede(e) ==
    CASE e = "PRESS"        -> {"none", "RELEASE"}
      [] e = "FIRST_REPEAT" -> {"PRESS"}
      [] e = "REPEAT"       -> {"FIRST_REPEAT", "REPEAT"}
      [] e = "RELEASE"      -> {"PRESS", "FIRST_REPEAT", "REPEAT"}

Emit(e) == last' = e /\ inOrder' = (last \in MayPrecede(e))

\* esp_timer_stop() of a timer that is not armed does nothing.
\* Mutant: the call is forgotten.
LeaveArmed(t) == t
Stopped(t) == "off"

\* esp_timer_start_once() and _periodic() fail when the timer is armed, and the
\* failure is fatal.  Mutant: the timer is not started.
StartNothing(t, kind) == t
Started(t, kind) == IF t = "off" THEN kind ELSE t

Arm(t, kind) == timer' = Started(t, kind) /\ abort' = (t # "off")

\* The state that a callback leaves.  Mutant: it just counts.
CountUp(s) == s + 1
AfterTout(s) == IF s = RELEASED THEN PRESSED ELSE REPEATED

-----------------------------------------------------------------------------
(* The interrupt: it may come anywhere, also into onTout() of the timer task, and runs to *)
(* its end before the task goes on.                                                      *)

\* Mutants: RELEASE is reported always; the state, the press time are left alone.
ReportAlways(was) == TRUE
ReportRelease(was) == was # RELEASED
KeepState(s) == s
AfterRelease(s) == RELEASED
AddStamp(s) == s \cup {"released"}
AfterReleaseStamp(s) == {"released"}

\* An edge does harm when it cuts into onTout() at these places: a release is undone by a
\* press that is being reported, or by a repeat; a press arms the timer before onTout() does.
Cut == {h \in Harms :
    CASE h = "press"  -> pin = 0 /\ cb \in PressLabels \cup {"fired"}
      [] h = "repeat" -> pin = 0 /\ cb \in RepeatLabels
      [] h = "arming" -> pin = 1 /\ cb \in {"press_start", "first_start"}}

MayInterrupt == edge /\ alive /\ ~abort

OnPressEdge ==
    /\ MayInterrupt /\ pin = 1
    /\ edge' = FALSE
    /\ Arm(Stopped(timer), "once")
    /\ cuts' = cuts \cup Cut
    /\ UNCHANGED <<pin, cb, st, stamp, last, inOrder, alive>>

OnReleaseEdge ==
    /\ MayInterrupt /\ pin = 0
    /\ edge' = FALSE
    /\ timer' = Stopped(timer)
    /\ st' = AfterRelease(st)
    /\ stamp' = AfterReleaseStamp(stamp)
    /\ IF ReportRelease(st) THEN Emit("RELEASE") ELSE UNCHANGED <<last, inOrder>>
    /\ cuts' = IF cb = "none" /\ ReportRelease(st) THEN {} ELSE cuts \cup Cut
    /\ UNCHANGED <<pin, cb, abort, alive>>

-----------------------------------------------------------------------------
(* The timer task *)

At(label) == cb = label /\ ~abort

\* The task takes the expired timer off its list; the callback comes later.
Fire ==
    /\ At("none") /\ alive /\ timer # "off"
    /\ timer' = IF timer = "once" THEN "off" ELSE timer
    /\ cb' = "fired"
    /\ UNCHANGED <<pin, edge, st, stamp, last, inOrder, cuts, abort, alive>>

ToutEnter ==
    /\ At("fired")
    /\ \/ st = RELEASED /\ cb' = "press_stop" /\ stamp' = {"pressed"} /\ UNCHANGED st
       \/ st = PRESSED /\ cb' = "first_stop" /\ st' = AfterTout(st) /\ UNCHANGED stamp
       \/ st = REPEATED /\ cb' = "repeat_emit" /\ st' = AfterTout(st) /\ UNCHANGED stamp
    /\ UNCHANGED <<pin, edge, timer, last, inOrder, cuts, abort, alive>>

ToutStop ==
    /\ At("press_stop") \/ At("first_stop")
    /\ timer' = Stopped(timer)
    /\ cb' = IF cb = "press_stop" THEN "press_start" ELSE "first_start"
    /\ UNCHANGED <<pin, edge, st, stamp, last, inOrder, cuts, abort, alive>>

ToutStart ==
    /\ \/ At("press_start") /\ Arm(timer, "once") /\ cb' = "press_emit"
       \/ At("first_start") /\ Arm(timer, "periodic") /\ cb' = "first_emit"
    /\ UNCHANGED <<pin, edge, st, stamp, last, inOrder, cuts, alive>>

ToutEmit ==
    /\ \/ At("press_emit") /\ Emit("PRESS") /\ cb' = "press_set"
       \/ At("first_emit") /\ Emit("FIRST_REPEAT") /\ cb' = "none"
       \/ At("repeat_emit") /\ Emit("REPEAT") /\ cb' = "none"
    /\ UNCHANGED <<pin, edge, timer, st, stamp, cuts, abort, alive>>

\* _state becomes PRESSED only after the user's callback has run.
ToutSet ==
    /\ At("press_set")
    /\ st' = AfterTout(RELEASED)
    /\ cb' = "none"
    /\ UNCHANGED <<pin, edge, timer, stamp, last, inOrder, cuts, abort, alive>>

-----------------------------------------------------------------------------
(* The world *)

Toggle ==
    /\ ~abort
    /\ pin' = 1 - pin
    /\ edge' = alive
    /\ UNCHANGED <<timer, cb, st, stamp, last, inOrder, cuts, abort, alive>>

\* Wrapper::del() and ~Button(): esp_timer_delete() of an armed timer is fatal.
\* An onTout() that is under way goes on in what was the Button.
Delete ==
    /\ alive /\ ~abort
    /\ abort' = (timer # "off")
    /\ alive' = FALSE
    /\ edge' = FALSE
    /\ UNCHANGED <<pin, timer, cb, st, stamp, last, inOrder, cuts>>

Interrupt == OnPressEdge \/ OnReleaseEdge
Tout == ToutEnter \/ ToutStop \/ ToutStart \/ ToutEmit \/ ToutSet

Next == Interrupt \/ Fire \/ Tout \/ Toggle \/ Delete

\* A pending interrupt is latched and served; the timer task runs, and armed timers expire.
Fairness == WF_vars(Interrupt) /\ WF_vars(Fire) /\ WF_vars(Tout)

Spec == Init /\ [][Next]_vars /\ Fairness

-----------------------------------------------------------------------------
(* Properties *)

\* No release was undone since the last one that came between callbacks.
Undisturbed == cuts \cap {"press", "repeat"} = {}

\* test/buttons.cpp:88-131: PRESS, FIRST_REPEAT and REPEATs, RELEASE, in this order and
\* nothing twice but REPEAT, however the contact bounces and wherever the interrupt
\* comes, but for a release that cuts into the callback that repeats: its RELEASE
\* overtakes the event.  The next release between callbacks puts the order right again.
EventOrder == "repeat" \notin cuts => inOrder

\* When every edge is served and no callback runs, the button is what its pin
\* says: a released button is RELEASED, reported as such, and its timer is off; a
\* held one has a timer that will report it, unless it was in REPEATED already: a
\* glitch that the interrupt sees as one press edge ends the repeats.  And then
\* pressed_for() and released_for() agree with state().  A release that cuts into
\* onTout() is undone by it, and the next one between callbacks mends that.
SettledMatchesPin ==
    Undisturbed /\ alive /\ ~edge /\ cb = "none" =>
        /\ IF pin = 0 THEN st = RELEASED /\ timer = "off" /\ last \in {"none", "RELEASE"}
                      ELSE timer # "off" \/ st = REPEATED
        /\ IF st = RELEASED THEN "pressed" \notin stamp ELSE stamp = {"pressed"}

\* An ESP_ERROR_CHECK of the timer calls fails for two causes and no other: a press edge
\* cut in between onTout()'s stop and start, or the button is deleted too early.  Once it
\* was let go, and its edges were served without being undone, it is not too early: the
\* timer is off, and the timer task is not inside the Button that is freed.
OnlyNamedAborts ==
    /\ [](abort /\ alive => "arming" \in cuts)
    /\ [][alive /\ ~alive' /\ pin = 0 /\ ~edge /\ Undisturbed => ~abort' /\ cb = "none"]_vars

\* A button that is let go for good becomes RELEASED.
ReleaseReported == <>[](pin = 0 /\ alive /\ ~abort) => <>[](st = RELEASED)

\* One that is held for good is reported: the last event the user gets is of this press,
\* wherever the interrupt came.  One that is let go for good is reported, unless onTout()
\* undid the release.
LevelReported ==
    /\ <>[](pin = 1 /\ alive /\ ~abort) => <>[](last \in {"PRESS", "FIRST_REPEAT", "REPEAT"})
    /\ <>[](pin = 0 /\ alive /\ ~abort /\ Undisturbed)
          => <>[](st = RELEASED /\ last \in {"none", "RELEASE"})
=============================================================================
