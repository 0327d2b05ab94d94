---------------------------- MODULE VersionedCell ----------------------------
(***************************************************************************)
(* What NvStorage promises: one cell that holds the newest value and its   *)
(* version.  A write is atomic, whatever interrupts it; only when the      *)
(* versions are used up may the cell fall back to an older value or to     *)
(* nothing.                                                                *)
(***************************************************************************)
EXTENDS Integers

CONSTANTS Values, MaxHandle, NoRec

VARIABLE cell     \* NoRec or the newest record

Records == [handle : 1 .. MaxHandle, data : Values]

Init == cell = NoRec

Version(r) == IF r = NoRec THEN 0 ELSE r.handle

\* The newest value is replaced by one with the next version.
Commit == \E v \in Values :
    /\ Version(cell) < MaxHandle
    /\ cell' = [handle |-> Version(cell) + 1, data |-> v]

\* The versions are used up: the medium is erased, perhaps not all of it.
Recycle ==
    /\ Version(cell) = MaxHandle
    /\ cell' \in Records \cup {NoRec}
    /\ Version(cell') < MaxHandle

Next == Commit \/ Recycle

Spec == Init /\ [][Next]_cell
=============================================================================
