---------------------------- MODULE ButtonsProofs ----------------------------
(***************************************************************************)
(* What one Button guarantees, wherever the edge interrupt comes and       *)
(* whenever the button is deleted.  Where an edge cuts into onTout() it    *)
(* does harm; the invariants say what stays true even then, what is true   *)
(* as long as none did, and the step that leads back: the RELEASE that     *)
(* comes between callbacks.                                                *)
(***************************************************************************)
EXTENDS Buttons, TLAPS

\* onTout() is where the state sends it, unless a release cut in.
PlaceInv ==
    /\ cb \in PressLabels => st = RELEASED
    /\ cb \in RepeatLabels => st # PRESSED
    /\ "repeat" \notin cuts /\ cb \in RepeatLabels => st = REPEATED

\* Of a button that is not RELEASED the last event tells the state, but for the two that
\* are reported before (PRESS) and after (FIRST_REPEAT) the change of the state.
PressedInv ==
    /\ cb = "press_set" => last = "PRESS"
    /\ st = PRESSED => last = "PRESS"
    /\ st = REPEATED /\ cb \in FirstLabels => last = "PRESS"
    /\ st = REPEATED /\ cb \notin FirstLabels => last \in {"FIRST_REPEAT", "REPEAT"}

\* One that is RELEASED was reported so, unless a repeat overtook it.
ReleasedInv ==
    "repeat" \notin cuts =>
        /\ inOrder
        /\ st = RELEASED /\ cb # "press_set" => last \in {"none", "RELEASE"}

OrderInv == TypeOK /\ PlaceInv /\ PressedInv /\ ReleasedInv

\* onTout() arms a timer that is off, unless a press cut in.
AbortInv ==
    /\ alive /\ cb \in {"press_start", "first_start"} => timer = "off" \/ "arming" \in cuts
    /\ alive /\ abort => "arming" \in cuts

\* The time stamps agree with the state, or with what onTout() is about to make it; a
\* release leaves nothing that could start the timer task; a press leaves a timer, or
\* what the timer task has come to.
SettledInv ==
    Undisturbed =>
        /\ IF st # RELEASED \/ cb \in PressLabels THEN stamp = {"pressed"}
                                                     ELSE "pressed" \notin stamp
        /\ cb \in {"press_emit", "press_set", "first_emit"} => timer # "off"
        /\ alive /\ ~edge /\ pin = 0 => cb = "none" /\ st = RELEASED /\ timer = "off"
        /\ alive /\ ~edge /\ pin = 1 /\ cb = "none" => timer # "off" \/ st = REPEATED

IInv == OrderInv /\ AbortInv /\ SettledInv

-----------------------------------------------------------------------------
USE DEF RELEASED, PRESSED, REPEATED

LEMMA Order ==
    /\ MayPrecede("PRESS") = {"none", "RELEASE"}
    /\ MayPrecede("FIRST_REPEAT") = {"PRESS"}
    /\ MayPrecede("REPEAT") = {"FIRST_REPEAT", "REPEAT"}
    /\ MayPrecede("RELEASE") = {"PRESS", "FIRST_REPEAT", "REPEAT"}
    BY DEF MayPrecede

\* The types, for an interrupt at any place.
LEMMA TypeStep == TypeOK /\ [Next]_vars => TypeOK'
<1> SUFFICES ASSUME TypeOK, [Next]_vars PROVE TypeOK'
    OBVIOUS
<1> USE DEF TypeOK, Labels, PressLabels, FirstLabels, RepeatLabels, Harms, Events, At
<1>1. CASE OnPressEdge
    BY <1>1 DEF OnPressEdge, Arm, Started, Stopped, Cut
<1>2. CASE OnReleaseEdge
    <2>1. last' \in Events \cup {"none"} /\ (inOrder' \in BOOLEAN)
        <3>1. CASE ReportRelease(st)
            <4>1. last' = "RELEASE" /\ inOrder' = (last \in MayPrecede("RELEASE"))
                BY <1>2, <3>1 DEF OnReleaseEdge, Emit
            <4>2. inOrder' \in BOOLEAN
                BY <4>1
            <4> QED
                BY <4>1, <4>2
        <3>2. CASE ~ReportRelease(st)
            BY <1>2, <3>2 DEF OnReleaseEdge
        <3> QED
            BY <3>1, <3>2
    <2> QED
        BY <1>2, <2>1 DEF OnReleaseEdge, Stopped, AfterRelease, AfterReleaseStamp, Cut
<1>3. CASE Fire
    BY <1>3 DEF Fire
<1>4. CASE ToutEnter
    BY <1>4 DEF ToutEnter, AfterTout
<1>5. CASE ToutStop
    BY <1>5 DEF ToutStop, Stopped
<1>6. CASE ToutStart
    BY <1>6 DEF ToutStart, Arm, Started
<1>7. CASE ToutEmit
    <2>1. PICK e \in Events : last' = e /\ inOrder' = (last \in MayPrecede(e))
        BY <1>7 DEF ToutEmit, Emit
    <2>2. inOrder' \in BOOLEAN
        BY <2>1
    <2> QED
        BY <1>7, <2>1, <2>2 DEF ToutEmit
<1>8. CASE ToutSet
    BY <1>8 DEF ToutSet, AfterTout
<1>9. CASE Toggle
    BY <1>9 DEF Toggle
<1>10. CASE Delete
    BY <1>10 DEF Delete
<1>11. CASE UNCHANGED vars
    BY <1>11 DEF vars
<1> QED
    BY <1>1, <1>2, <1>3, <1>4, <1>5, <1>6, <1>7, <1>8, <1>9, <1>10, <1>11 DEF Next, Interrupt, Tout

\* The order of the events.
LEMMA OrderStep ==
    ASSUME OrderInv, [Next]_vars
    PROVE  OrderInv'
<1> USE DEF OrderInv, PlaceInv, PressedInv, ReleasedInv, PressLabels, FirstLabels, RepeatLabels, At
<1>0. TypeOK'
    BY TypeStep
<1>1. CASE OnPressEdge
    BY <1>0, <1>1 DEF OnPressEdge
<1>2. CASE OnReleaseEdge
    <2>1. st' = RELEASED /\ cb' = cb /\ pin = 0
        BY <1>2 DEF OnReleaseEdge, AfterRelease
    <2>2. cb \in RepeatLabels => "repeat" \in cuts'
        BY <1>2, <2>1 DEF OnReleaseEdge, Cut, Harms
    <2>3. CASE st = RELEASED
        <3>1. last' = last /\ inOrder' = inOrder /\ cuts \subseteq cuts'
            BY <1>2, <2>3 DEF OnReleaseEdge, ReportRelease
        <3> QED
            BY <1>0, <2>1, <2>2, <2>3, <3>1
    <2>4. CASE st # RELEASED
        <3>1. last' = "RELEASE" /\ inOrder' = (last \in MayPrecede("RELEASE"))
            BY <1>2, <2>4 DEF OnReleaseEdge, ReportRelease, Emit
        <3>2. last \in {"PRESS", "FIRST_REPEAT", "REPEAT"} /\ cb \notin PressLabels
            BY <2>4 DEF TypeOK
        <3>3. inOrder'
            BY <3>1, <3>2, Order, Zenon
        <3> QED
            BY <1>0, <2>1, <2>2, <3>1, <3>2, <3>3
    <2> QED
        BY <2>3, <2>4
<1>3. CASE Fire \/ Toggle \/ Delete
    BY <1>0, <1>3 DEF Fire, Toggle, Delete
<1>4. CASE ToutEnter
    BY <1>0, <1>4 DEF ToutEnter, AfterTout
<1>5. CASE ToutStop
    BY <1>0, <1>5 DEF ToutStop
<1>6. CASE ToutStart
    BY <1>0, <1>6 DEF ToutStart
<1>7. CASE ToutEmit
    <2>0. st' = st /\ cuts' = cuts
        BY <1>7 DEF ToutEmit
    <2>1. CASE cb = "press_emit"
        <3>1. last' = "PRESS" /\ cb' = "press_set" /\ st = RELEASED
              /\ inOrder' = (last \in MayPrecede("PRESS"))
            BY <1>7, <2>1 DEF ToutEmit, Emit
        <3>2. "repeat" \notin cuts => last \in {"none", "RELEASE"}
            BY <2>1, <3>1
        <3>3. "repeat" \notin cuts => inOrder'
            BY <3>1, <3>2, Order, Zenon
        <3> QED
            BY <1>0, <2>0, <2>1, <3>1, <3>3
    <2>2. CASE cb = "first_emit"
        <3>1. last' = "FIRST_REPEAT" /\ cb' = "none"
              /\ inOrder' = (last \in MayPrecede("FIRST_REPEAT"))
            BY <1>7, <2>2 DEF ToutEmit, Emit
        <3>2. /\ "repeat" \notin cuts => last \in {"PRESS"} /\ st = REPEATED
              /\ st # PRESSED
            BY <2>2
        <3>3. "repeat" \notin cuts => inOrder'
            BY <3>1, <3>2, Order, Zenon
        <3> QED
            BY <1>0, <2>0, <2>2, <3>1, <3>2, <3>3
    <2>3. CASE cb = "repeat_emit"
        <3>1. last' = "REPEAT" /\ cb' = "none"
              /\ inOrder' = (last \in MayPrecede("REPEAT"))
            BY <1>7, <2>3 DEF ToutEmit, Emit
        <3>2. /\ "repeat" \notin cuts => last \in {"FIRST_REPEAT", "REPEAT"} /\ st = REPEATED
              /\ st # PRESSED
            BY <2>3
        <3>3. "repeat" \notin cuts => inOrder'
            BY <3>1, <3>2, Order, Zenon
        <3> QED
            BY <1>0, <2>0, <2>3, <3>1, <3>2, <3>3
    <2> QED
        BY <1>7, <2>1, <2>2, <2>3 DEF ToutEmit
<1>8. CASE ToutSet
    BY <1>0, <1>8 DEF ToutSet, AfterTout
<1>9. CASE UNCHANGED vars
    BY <1>9 DEF vars, TypeOK
<1> QED
    BY <1>1, <1>2, <1>3, <1>4, <1>5, <1>6, <1>7, <1>8, <1>9 DEF Next, Interrupt, Tout

\* The calls of the timer.
LEMMA AbortStep ==
    ASSUME IInv, [Next]_vars
    PROVE  AbortInv'
<1> USE DEF IInv, OrderInv, AbortInv, At
<1>1. CASE OnPressEdge
    BY <1>1 DEF OnPressEdge, MayInterrupt, Arm, Stopped, Cut, Harms
<1>2. CASE OnReleaseEdge
    BY <1>2 DEF OnReleaseEdge, MayInterrupt, Stopped
<1>3. CASE ToutStart
    BY <1>3 DEF ToutStart, Arm
<1>4. CASE ToutStop
    BY <1>4 DEF ToutStop, Stopped
<1>5. CASE Fire \/ ToutEnter \/ ToutEmit \/ ToutSet \/ Toggle \/ Delete
    BY <1>5 DEF Fire, ToutEnter, ToutEmit, ToutSet, Toggle, Delete
<1>6. CASE UNCHANGED vars
    BY <1>6 DEF vars
<1> QED
    BY <1>1, <1>2, <1>3, <1>4, <1>5, <1>6 DEF Next, Interrupt, Tout

\* A button into which no release cut, or into which the last release did not.
LEMMA SettleStep ==
    ASSUME IInv, [Next]_vars
    PROVE  SettledInv'
<1> SUFFICES ASSUME Undisturbed' PROVE SettledInv'
    BY DEF SettledInv
<1> USE DEF IInv, AbortInv, SettledInv, Undisturbed, At
<1>0. TypeOK /\ PlaceInv
    BY DEF OrderInv
<1>1. CASE OnPressEdge
    <2>1. timer' = "once" /\ pin' = 1 /\ Undisturbed
        BY <1>1 DEF OnPressEdge, Arm, Started, Stopped
    <2> QED
        BY <1>0, <1>1, <2>1 DEF OnPressEdge, PressLabels
<1>2. CASE OnReleaseEdge
    <2>1. cb = "none"
        BY <1>0, <1>2 DEF OnReleaseEdge, MayInterrupt, Cut, Harms, TypeOK, Labels
    <2> QED
        BY <1>0, <1>2, <2>1 DEF OnReleaseEdge, Stopped, AfterRelease, AfterReleaseStamp, PressLabels
<1>3. CASE Fire
    BY <1>0, <1>3 DEF Fire, PressLabels, TypeOK
<1>4. CASE ToutEnter
    BY <1>0, <1>4 DEF ToutEnter, AfterTout, PressLabels, TypeOK
<1>5. CASE ToutStop
    BY <1>0, <1>5 DEF ToutStop, Stopped, PressLabels, TypeOK
<1>6. CASE ToutStart
    BY <1>0, <1>6 DEF ToutStart, Arm, Started, PressLabels, TypeOK
<1>7. CASE ToutEmit
    BY <1>0, <1>7 DEF ToutEmit, PressLabels, FirstLabels, RepeatLabels, PlaceInv, TypeOK
<1>8. CASE ToutSet
    BY <1>0, <1>8 DEF ToutSet, AfterTout, PressLabels, PlaceInv, TypeOK
<1>9. CASE Toggle
    BY <1>0, <1>9 DEF Toggle, TypeOK
<1>10. CASE Delete
    BY <1>0, <1>10 DEF Delete, TypeOK
<1>11. CASE UNCHANGED vars
    BY <1>0, <1>11 DEF vars
<1> QED
    BY <1>1, <1>2, <1>3, <1>4, <1>5, <1>6, <1>7, <1>8, <1>9, <1>10, <1>11 DEF Next, Interrupt, Tout

LEMMA InvStep == IInv /\ [Next]_vars => IInv'
    BY OrderStep, AbortStep, SettleStep DEF IInv

LEMMA InitInv == Init => IInv
<1> SUFFICES ASSUME Init PROVE IInv
    OBVIOUS
<1>1. TypeOK
    <2>1. stamp \subseteq {"pressed", "released"}
        BY DEF Init
    <2>2. edge \in BOOLEAN /\ inOrder \in BOOLEAN /\ abort \in BOOLEAN /\ alive \in BOOLEAN
        BY DEF Init
    <2> QED
        BY <2>1, <2>2 DEF Init, TypeOK, Labels, Events, Harms
<1>2. PlaceInv /\ PressedInv /\ ReleasedInv
    BY DEF Init, PlaceInv, PressedInv, ReleasedInv, PressLabels, FirstLabels, RepeatLabels
<1>3. AbortInv /\ SettledInv
    BY DEF Init, AbortInv, SettledInv, PressLabels
<1> QED
    BY <1>1, <1>2, <1>3 DEF IInv, OrderInv

-----------------------------------------------------------------------------
\* Every variable keeps its type, wherever the interrupt comes and whenever the
\* button is deleted: no callback leaves a state that Button does not have.
THEOREM TypeCorrect == Spec => []TypeOK
<1>1. Init => TypeOK
    BY InitInv DEF IInv, OrderInv
<1> QED
    BY <1>1, TypeStep, PTL DEF Spec

\* The user gets PRESS, FIRST_REPEAT, REPEATs and RELEASE in this order, even when the
\* interrupt comes into the middle of the callback that reports the press, and whenever
\* the button is deleted; only a release that cuts into a repeat changes it, and only
\* until the next release between callbacks.
THEOREM EventsInOrder == Spec => []EventOrder
<1>1. OrderInv /\ [Next]_vars => OrderInv'
    BY OrderStep
<1>2. OrderInv => EventOrder
    BY DEF OrderInv, ReleasedInv, EventOrder
<1>3. Init => OrderInv
    BY InitInv DEF IInv
<1> QED
    BY <1>1, <1>2, <1>3, PTL DEF Spec

\* When no edge is pending and onTout() has returned, a button that is still there agrees
\* with its pin, wherever presses came, unless onTout() undid the last release.
THEOREM SettledIsRight == Spec => []SettledMatchesPin
<1>1. IInv => SettledMatchesPin
    BY DEF IInv, OrderInv, ReleasedInv, SettledInv, Undisturbed, PressLabels, TypeOK, SettledMatchesPin
<1> QED
    BY InitInv, InvStep, <1>1, PTL DEF Spec

\* A timer call is fatal only when a press came between onTout()'s stop and start, or when
\* the button is deleted too early, which one that was let go and served is not.
THEOREM AbortsAreNamed == Spec => OnlyNamedAborts
<1>1. IInv => (abort /\ alive => "arming" \in cuts)
    BY DEF IInv, AbortInv
<1>2. IInv /\ [Next]_vars
      => [alive /\ ~alive' /\ pin = 0 /\ ~edge /\ Undisturbed => ~abort' /\ cb = "none"]_vars
    <2> SUFFICES ASSUME IInv, Next, alive, ~alive', pin = 0, ~edge, Undisturbed
                 PROVE  ~abort' /\ cb = "none"
        OBVIOUS
    <2>1. cb = "none" /\ timer = "off"
        BY DEF IInv, SettledInv
    <2>2. Delete
        BY DEF Next, Interrupt, OnPressEdge, OnReleaseEdge, Fire, Tout, ToutEnter, ToutStop, ToutStart,
               ToutEmit, ToutSet, Toggle
    <2> QED
        BY <2>1, <2>2 DEF Delete
<1> QED
    BY InitInv, InvStep, <1>1, <1>2, PTL DEF Spec, OnlyNamedAborts
=============================================================================
