------------------------------ MODULE NvStorage ------------------------------
(***************************************************************************)
(* NvStorage keeps one value on a flash partition as a log of records with *)
(* growing handles: find() returns the valid record with the greatest one, *)
(* set() writes the next record behind it.  The object has no state in RAM *)
(* between calls, so a crash and a failing backend call look alike to the  *)
(* next call.  A CRC mismatch is a record that is not there: crc16 is      *)
(* taken to notice every torn or overwritten record.                       *)
(***************************************************************************)
EXTENDS Integers, FiniteSets

CONSTANTS
    MaxSize,     \* max_size: bytes of the partition
    ChunkSize,   \* chunkSize = sizeof(TLV_t) + sizeof(Typ)
    ElemSize,    \* sizeof(element), ChunkSize plus the compiler's padding
    MaxHandle,   \* bound: the greatest handle (2^32 - 1 in the code)
    Values,      \* what set() may store
    NoRec,       \* no valid record
    NewestReads  \* read() of the newest record does not fail (any other may)

ASSUME SizeAssumption  == /\ ChunkSize \in Nat \ {0} /\ ElemSize \in Nat /\ MaxSize \in Nat
                          /\ ChunkSize <= ElemSize /\ ChunkSize <= MaxSize
ASSUME HandleAssumption == MaxHandle \in Nat \ {0}
ASSUME ReadsAssumption == NewestReads \in BOOLEAN

Records == [handle : 1 .. MaxHandle, data : Values]

ASSUME NoRecAssumption == NoRec \notin Records

VARIABLES
    flash,   \* the record that starts at each offset, or NoRec
    pc,      \* "idle", or the backend call set() is about to make
    el,      \* set()'s local element
    off,     \* set()'s local offset
    acked    \* history: the record of the last set() that returned true

vars == <<flash, pc, el, off, acked>>

Offsets == 0 .. MaxSize - 1

\* The offsets that find() reads: the multiples of sizeof(element).
Slots == Offsets \cap {k * ElemSize : k \in Offsets}

TypeOK ==
    /\ flash \in [Offsets -> Records \cup {NoRec}]
    /\ pc \in {"idle", "erase", "write"}
    /\ el \in Records \cup {NoRec}
    /\ off \in Offsets
    /\ acked \in Records \cup {NoRec}

Init ==
    /\ flash = [o \in Offsets |-> NoRec]
    /\ pc = "idle" /\ el = NoRec /\ off = 0
    /\ acked = NoRec

-----------------------------------------------------------------------------
(* find(): the greatest handle among the slots that can be read *)

\* Among equal handles the scan keeps the last.
\* Mutant: it keeps the first record it meets.
FirstOf(S) == {i \in S : \A j \in S : i <= j}
NewestOf(S) == {i \in S : \A j \in S : \/ flash[j].handle < flash[i].handle
                                       \/ flash[j].handle = flash[i].handle /\ j <= i}

Valid(readable) == {i \in readable : flash[i] # NoRec}

\* The offset find() reports, in a set that is empty when it finds nothing.
FoundAt(readable) == NewestOf(Valid(readable))

\* What an undisturbed find() returns.
Found == IF Valid(Slots) = {} THEN NoRec ELSE flash[CHOOSE i \in FoundAt(Slots) : TRUE]

-----------------------------------------------------------------------------
(* set() *)

\* Mutant: the wrap is not noticed.
NeverWraps(handle) == FALSE
Wraps(handle) == handle = MaxHandle

\* Mutants: the slot of the newest record is reused; it is reused at the end.
SameSlot(o) == o
StayAtEnd(o) == IF o + 2 * ChunkSize > MaxSize THEN o ELSE o + ChunkSize
NextOffset(o) == IF o + 2 * ChunkSize > MaxSize THEN 0 ELSE o + ChunkSize

\* find(), the new handle and the new offset; the backend comes next.
SetAfter(v, at) ==
    IF at = {}
    THEN /\ el' = [handle |-> 1, data |-> v]
         /\ off' = 0
         /\ pc' = "write"
         /\ UNCHANGED acked
    ELSE \E i \in at :
         IF Wraps(flash[i].handle)
         THEN /\ el' = [handle |-> 1, data |-> v]
              /\ off' = 0
              /\ pc' = "erase"
              /\ acked' = NoRec
         ELSE /\ el' = [handle |-> flash[i].handle + 1, data |-> v]
              /\ off' = NextOffset(i)
              /\ pc' = "write"
              /\ UNCHANGED acked

\* A read that fails skips its slot; when the second read of the best slot fails,
\* find() reports nothing, as when all of them fail.
Set(v) ==
    /\ pc = "idle"
    /\ \E readable \in SUBSET Slots :
          /\ NewestReads => FoundAt(Slots) \subseteq readable
          /\ SetAfter(v, FoundAt(readable))
    /\ UNCHANGED flash

Back == pc' = "idle" /\ el' = NoRec /\ off' = 0

Erase ==
    /\ pc = "erase"
    /\ flash' = [o \in Offsets |-> NoRec]
    /\ pc' = "write"
    /\ UNCHANGED <<el, off, acked>>

\* The erase fails or power is lost: some of the records are gone.
EraseStops ==
    /\ pc = "erase"
    /\ \E gone \in SUBSET Offsets :
          flash' = [o \in Offsets |-> IF o \in gone THEN NoRec ELSE flash[o]]
    /\ Back
    /\ UNCHANGED acked

\* Writing sizeof(element) bytes at `at` destroys the records it overlaps.
Overlap(o, at) == o < at + ElemSize /\ at < o + ElemSize
Written(rec, at) ==
    [o \in Offsets |-> IF o = at THEN rec ELSE IF Overlap(o, at) THEN NoRec ELSE flash[o]]

Write ==
    /\ pc = "write"
    /\ flash' = Written(el, off)
    /\ acked' = el
    /\ Back

\* The write fails or power is lost: nothing, a part or all of it was written.
WriteStops ==
    /\ pc = "write"
    /\ flash' \in {flash, Written(NoRec, off), Written(el, off)}
    /\ Back
    /\ UNCHANGED acked

Next == (\E v \in Values : Set(v)) \/ Erase \/ EraseStops \/ Write \/ WriteStops

Spec == Init /\ [][Next]_vars

-----------------------------------------------------------------------------
(* Properties.  Whatever backend calls fail or are cut off, but for one: when read() of  *)
(* the newest record fails inside set(), find() reports an older record, or none, and    *)
(* set() gives a handle out again and writes onto the newest record.                     *)

\* test/nvstor.cpp:49-56, with crashes and failures added: what a set() that
\* returned true stored is what find() returns, until a newer set() replaces it
\* (perhaps one that was cut short after its record was complete).  A wrap of
\* the handle ends the promise: see the README.
AckedNotLost ==
    acked # NoRec =>
        /\ Found # NoRec
        /\ Found = acked \/ Found.handle > acked.handle

\* The record that find() would return is never in the way of the write: a torn
\* write destroys an older record or a free slot, while the newest record can be read.
NewestNotOverwritten ==
    pc = "write" => \A i \in FoundAt(Slots) : ~Overlap(i, off)

\* NvStorage.hpp:15, "always increased": each acknowledged set() has a greater handle
\* than the one acknowledged before, until the handle wraps.  Failing reads break it.
AckedHandlesIncrease ==
    [][acked # NoRec /\ acked' # NoRec /\ acked' # acked => acked'.handle > acked.handle]_vars

\* NvStorage implements the versioned cell: every write is atomic and its
\* version is the next one, whatever else the backend does.
Cell == INSTANCE VersionedCell WITH cell <- Found
ImplementsCell == Cell!Spec
=============================================================================
