--------------------------- MODULE NvStorageProofs ---------------------------
(***************************************************************************)
(* What holds of NvStorage for every partition of at least two records,    *)
(* every greatest handle and every set of values, when the record has no   *)
(* padding (ElemSize = ChunkSize): then no crash, torn write or failing    *)
(* call loses an acknowledged value or gives out a handle again, a failing *)
(* read included unless it is that of the newest record.                   *)
(***************************************************************************)
EXTENDS NvStorage, WellFoundedInduction, TLAPS

\* The setting of the theorems.
Sound == ElemSize = ChunkSize /\ 2 * ElemSize <= MaxSize /\ NewestReads

Full == Valid(Slots)

\* Records start at slots, lie in the partition and carry different handles.
FlashOK ==
    /\ \A o \in Offsets : flash[o] # NoRec => o \in Slots
    /\ \A i, j \in Full : flash[i].handle = flash[j].handle => i = j

\* The pending write: its record is newer than all others, and it goes to
\* another slot than the newest.
PendingOK ==
    /\ pc = "write" =>
         /\ el \in Records /\ off \in Slots
         /\ \A i \in Full : flash[i].handle < el.handle
         /\ Full = {} => el.handle = 1
         /\ Full # {} => \E i \in Full : flash[i].handle + 1 = el.handle /\ i # off
    /\ pc = "erase" =>
         /\ el \in Records /\ off = 0 /\ el.handle = 1 /\ acked = NoRec
         /\ \E i \in Full : flash[i].handle = MaxHandle

\* The acknowledged record, or a newer one, is on the flash.
AckedOK ==
    acked # NoRec => \E i \in Full : flash[i] = acked \/ flash[i].handle > acked.handle

IInv == TypeOK /\ FlashOK /\ PendingOK /\ AckedOK

-----------------------------------------------------------------------------
USE SizeAssumption, HandleAssumption, NoRecAssumption

\* Two slots overlap only if they are the same.
LEMMA SlotsApart ==
    ASSUME NEW i \in Slots, NEW j \in Slots, Overlap(i, j)
    PROVE  i = j
<1>1. PICK a \in Nat : i = a * ElemSize
    BY DEF Slots, Offsets
<1>2. PICK b \in Nat : j = b * ElemSize
    BY DEF Slots, Offsets
<1>3. ASSUME NEW m \in Nat, NEW n \in Nat, m < n
      PROVE  m * ElemSize + ElemSize <= n * ElemSize
    <2>1. (n - m - 1) * ElemSize >= 0
        BY <1>3
    <2> QED
        BY <1>3, <2>1
<1> QED
    BY <1>1, <1>2, <1>3 DEF Overlap

\* The offset behind a slot is a slot, and not the same one.
LEMMA NextIsSlot ==
    ASSUME Sound, NEW i \in Slots
    PROVE  NextOffset(i) \in Slots /\ NextOffset(i) # i
<1>1. PICK a \in Offsets : i = a * ElemSize
    BY DEF Slots
<1>2. CASE i + 2 * ChunkSize > MaxSize
    <2>1. 0 \in Slots
        <3>1. 0 \in Offsets /\ 0 = 0 * ElemSize
            BY DEF Offsets, Sound
        <3> QED
            BY <3>1 DEF Slots
    <2>2. i # 0
        BY <1>2 DEF Sound
    <2> QED
        BY <1>2, <2>1, <2>2 DEF NextOffset
<1>3. CASE i + 2 * ChunkSize <= MaxSize
    <2>1. NextOffset(i) = (a + 1) * ElemSize /\ NextOffset(i) # i
        BY <1>1, <1>3 DEF NextOffset, Sound, Offsets
    <2>2. NextOffset(i) \in Offsets
        BY <1>1, <1>3 DEF NextOffset, Sound, Offsets, Slots
    <2>3. a + 1 <= (a + 1) * ElemSize
        BY <1>1 DEF Offsets, Sound
    <2>4. a + 1 \in Offsets
        BY <1>1, <2>1, <2>2, <2>3 DEF Offsets
    <2> QED
        BY <2>1, <2>2, <2>4 DEF Slots
<1> QED
    BY <1>1, <1>2, <1>3 DEF Offsets

\* A log that is not empty has a newest record.
LEMMA NewestExists ==
    ASSUME NEW fl, NEW S, S # {}, \A i \in S : fl[i].handle \in 1 .. MaxHandle
    PROVE  \E i \in S : \A j \in S : fl[j].handle <= fl[i].handle
<1> DEFINE Left == {MaxHandle - fl[i].handle : i \in S}
<1>1. Left \subseteq Nat /\ Left # {}
    OBVIOUS
<1>2. \E x \in Left : \A y \in Left : <<y, x>> \notin OpToRel(<, Nat)
    <2> HIDE DEF Left
    <2> QED
        BY <1>1, NatLessThanWellFounded, WFMin
<1>3. PICK x \in Left : \A y \in Left : ~(y < x)
    BY <1>1, <1>2 DEF OpToRel
<1>4. PICK i \in S : x = MaxHandle - fl[i].handle
    BY <1>3
<1>5. \A j \in S : ~(MaxHandle - fl[j].handle < MaxHandle - fl[i].handle)
    BY <1>3, <1>4
<1> QED
    BY <1>4, <1>5

\* find() returns it: the newest record is the only one found.
LEMMA FoundIsNewest ==
    ASSUME TypeOK, FlashOK, NEW i \in Full,
           \A j \in Full : flash[j].handle <= flash[i].handle
    PROVE  FoundAt(Slots) = {i} /\ Found = flash[i] /\ Found # NoRec
<1>1. \A j \in Full : flash[j].handle \in Nat /\ j \in Nat
    BY DEF TypeOK, Full, Valid, Slots, Records, Offsets
<1>2. FoundAt(Slots) = {i}
    BY <1>1 DEF FoundAt, NewestOf, Full, FlashOK
<1> QED
    BY <1>2 DEF Found, Full, Valid

\* And so does a find() that cannot read some of the others.
LEMMA NewestIsRead ==
    ASSUME TypeOK, FlashOK, NEW readable \in SUBSET Slots, FoundAt(Slots) \subseteq readable
    PROVE  FoundAt(readable) = FoundAt(Slots)
<1>1. \A i \in Full : i \in Nat /\ flash[i].handle \in 1 .. MaxHandle
    BY DEF TypeOK, Full, Valid, Slots, Records, Offsets
<1>2. CASE Full = {}
    BY <1>2 DEF FoundAt, NewestOf, Full, Valid
<1>3. CASE Full # {}
    <2>1. PICK i \in Full : \A j \in Full : flash[j].handle <= flash[i].handle
        BY <1>1, <1>3, NewestExists
    <2>2. FoundAt(Slots) = {i}
        BY <2>1, FoundIsNewest
    <2>3. Valid(readable) \subseteq Full /\ i \in Valid(readable)
        BY <2>2 DEF Full, Valid
    <2>4. FoundAt(readable) = {i}
        BY <1>1, <2>1, <2>3 DEF FoundAt, NewestOf, FlashOK
    <2> QED
        BY <2>2, <2>4
<1> QED
    BY <1>2, <1>3

LEMMA FoundNothing ==
    ASSUME Full = {}
    PROVE  FoundAt(Slots) = {} /\ Found = NoRec
    BY DEF Full, FoundAt, NewestOf, Found

-----------------------------------------------------------------------------
(* The invariant *)

LEMMA InvInit == Sound => (Init => IInv)
<1> SUFFICES ASSUME Sound, Init PROVE IInv
    OBVIOUS
<1>1. Full = {}
    BY DEF Init, Full, Valid, Slots
<1>2. TypeOK
    BY DEF Init, TypeOK, Offsets, Sound
<1> QED
    BY <1>1, <1>2 DEF IInv, FlashOK, PendingOK, AckedOK, Init

\* What is where after a write at a slot: the record there, the rest unchanged.
LEMMA WrittenAtSlot ==
    ASSUME TypeOK, FlashOK, NEW at \in Slots, NEW r \in Records \cup {NoRec},
           flash' = Written(r, at)
    PROVE  /\ flash' \in [Offsets -> Records \cup {NoRec}]
           /\ flash'[at] = r
           /\ \A o \in Offsets : o # at => flash'[o] = flash[o]
           /\ Full' = (Full \ {at}) \cup (IF r = NoRec THEN {} ELSE {at})
<1>1. at \in Offsets
    BY DEF Slots
<1>2. \A o \in Offsets : o # at /\ Overlap(o, at) => flash[o] = NoRec
    BY SlotsApart DEF FlashOK
<1>3. /\ flash' \in [Offsets -> Records \cup {NoRec}]
      /\ flash'[at] = r
      /\ \A o \in Offsets : o # at => flash'[o] = flash[o]
    BY <1>1, <1>2 DEF Written, TypeOK
<1>4. \A o \in Slots : o \in Full' <=> (IF o = at THEN r # NoRec ELSE o \in Full)
    BY <1>3 DEF Full, Valid, Slots
<1>5. Full \subseteq Slots /\ Full' \subseteq Slots
    BY DEF Full, Valid, Slots
<1> QED
    BY <1>3, <1>4, <1>5

\* set() up to the backend call.
LEMMA SetStep ==
    ASSUME Sound, IInv, NEW v \in Values, Set(v)
    PROVE  IInv' /\ Found' = Found /\ (acked' = acked \/ acked' = NoRec)
<1> TypeOK /\ FlashOK /\ AckedOK
    BY DEF IInv
<1>1. flash' = flash /\ SetAfter(v, FoundAt(Slots))
    BY NewestIsRead DEF Set, Sound
<1>2. Full' = Full /\ Found' = Found /\ FlashOK'
    BY <1>1 DEF Full, Valid, Found, FoundAt, NewestOf, FlashOK
<1>3. CASE Full = {}
    <2>1. /\ el' = [handle |-> 1, data |-> v] /\ off' = 0 /\ pc' = "write" /\ acked' = acked
        BY <1>1, <1>3, FoundNothing DEF SetAfter
    <2>2. el' \in Records /\ 0 \in Slots
        <3>1. 0 \in Offsets /\ 0 = 0 * ElemSize
            BY DEF Offsets, Sound
        <3> QED
            BY <2>1, <3>1 DEF Records, Slots
    <2>3. TypeOK'
        BY <1>1, <2>1, <2>2 DEF TypeOK, Slots
    <2>4. PendingOK' /\ AckedOK'
        BY <1>1, <1>2, <1>3, <2>1, <2>2 DEF PendingOK, AckedOK
    <2> QED
        BY <1>2, <2>1, <2>3, <2>4 DEF IInv
<1>4. CASE Full # {}
    <2>1. PICK i \in Full : \A j \in Full : flash[j].handle <= flash[i].handle
        <3>1. \A i \in Full : flash[i].handle \in 1 .. MaxHandle
            BY DEF TypeOK, Full, Valid, Slots, Records
        <3> QED
            BY <1>4, <3>1, NewestExists
    <2>2. FoundAt(Slots) = {i}
        BY <2>1, FoundIsNewest
    <2>3. i \in Slots /\ flash[i] \in Records
        BY DEF TypeOK, Full, Valid, Slots
    <2>4. \A j \in Full : flash[j].handle \in Nat
        BY DEF TypeOK, Full, Valid, Slots, Records
    <2>5. CASE flash[i].handle = MaxHandle
        <3>1. /\ el' = [handle |-> 1, data |-> v] /\ off' = 0 /\ pc' = "erase" /\ acked' = NoRec
            BY <1>1, <2>2, <2>5 DEF SetAfter, Wraps
        <3>2. el' \in Records /\ off' \in Offsets
            BY <3>1 DEF Records, Offsets, Sound
        <3>3. TypeOK'
            BY <1>1, <3>1, <3>2 DEF TypeOK
        <3>4. PendingOK' /\ AckedOK'
            BY <1>1, <1>2, <2>5, <3>1, <3>2 DEF PendingOK, AckedOK
        <3> QED
            BY <1>2, <3>1, <3>3, <3>4 DEF IInv
    <2>6. CASE flash[i].handle # MaxHandle
        <3>1. /\ el' = [handle |-> flash[i].handle + 1, data |-> v]
              /\ off' = NextOffset(i) /\ pc' = "write" /\ acked' = acked
            BY <1>1, <2>2, <2>6 DEF SetAfter, Wraps
        <3>2. el' \in Records /\ off' \in Slots /\ i # off'
            BY <2>3, <2>6, <3>1, NextIsSlot DEF Records
        <3>3. TypeOK'
            BY <1>1, <3>1, <3>2 DEF TypeOK, Slots
        <3>4. \A j \in Full : flash[j].handle < el'.handle
            BY <2>1, <2>4, <3>1
        <3>5. PendingOK'
            BY <1>1, <1>2, <1>4, <3>1, <3>2, <3>4 DEF PendingOK
        <3>6. AckedOK'
            BY <1>1, <1>2, <3>1 DEF AckedOK
        <3> QED
            BY <1>2, <3>1, <3>3, <3>5, <3>6 DEF IInv
    <2> QED
        BY <2>5, <2>6
<1> QED
    BY <1>3, <1>4

\* A completed write, acknowledged or not, makes its record the newest.
LEMMA WriteStep ==
    ASSUME Sound, IInv, pc = "write", flash' = Written(el, off), Back,
           acked' \in {acked, el}
    PROVE  IInv' /\ Found' = el /\ el.handle = Cell!Version(Found) + 1
<1> TypeOK /\ FlashOK /\ AckedOK
    BY DEF IInv
<1>1. /\ el \in Records /\ off \in Slots
      /\ \A i \in Full : flash[i].handle < el.handle
    BY DEF IInv, PendingOK
<1>2. /\ flash' \in [Offsets -> Records \cup {NoRec}]
      /\ flash'[off] = el
      /\ \A o \in Offsets : o # off => flash'[o] = flash[o]
      /\ Full' = (Full \ {off}) \cup {off}
    BY <1>1, WrittenAtSlot
<1>3. pc' = "idle" /\ el' = NoRec /\ off' = 0
    BY DEF Back
<1>4. \A i \in Full : i \in Offsets /\ flash[i].handle \in Nat
    BY DEF TypeOK, Full, Valid, Slots, Records
<1>5. el.handle \in Nat
    BY <1>1 DEF Records
<1>6. TypeOK'
    BY <1>1, <1>2, <1>3 DEF TypeOK, Offsets, Sound
<1>7. FlashOK'
    <2>1. \A o \in Offsets : flash'[o] # NoRec => o \in Slots
        BY <1>1, <1>2 DEF FlashOK
    <2>2. \A i, j \in Full' : flash'[i].handle = flash'[j].handle => i = j
        BY <1>1, <1>2, <1>4, <1>5 DEF FlashOK
    <2> QED
        BY <2>1, <2>2 DEF FlashOK
<1>8. \A j \in Full' : flash'[j].handle <= flash'[off].handle
    BY <1>1, <1>2, <1>4, <1>5
<1>9. Found' = el
    <2>1. Full' \subseteq Slots' /\ off \in Full'
        BY <1>2 DEF Full, Valid, Slots
    <2>2. FoundAt(Slots)' = {off}
        <3>1. \A j \in Full' : flash'[j].handle \in Nat /\ j \in Nat
            BY <1>2, <1>4, <1>5, <1>1 DEF Slots, Offsets
        <3>2. FoundAt(Slots)' = {i \in Full' : \A j \in Full' :
                  \/ flash'[j].handle < flash'[i].handle
                  \/ flash'[j].handle = flash'[i].handle /\ j <= i}
            BY DEF FoundAt, NewestOf, Full
        <3> QED
            BY <1>8, <1>7, <2>1, <3>1, <3>2 DEF FlashOK
    <2> QED
        BY <1>2, <2>1, <2>2 DEF Found, Full
<1>10. PendingOK'
    BY <1>3 DEF PendingOK
<1>11. AckedOK'
    <2>1. CASE acked' = el
        BY <1>2, <2>1 DEF AckedOK
    <2>2. CASE acked' = acked /\ acked # NoRec
        <3>1. PICK i \in Full : flash[i] = acked \/ flash[i].handle > acked.handle
            BY <2>2 DEF AckedOK
        <3>2. acked.handle \in Nat
            BY <2>2 DEF TypeOK, Records
        <3>3. el.handle > acked.handle
            BY <1>1, <1>4, <1>5, <3>1, <3>2
        <3> QED
            BY <1>2, <2>2, <3>3 DEF AckedOK
    <2> QED
        BY <2>1, <2>2 DEF AckedOK
<1>12. el.handle = Cell!Version(Found) + 1
    <2>1. CASE Full = {}
        BY <2>1, FoundNothing DEF Cell!Version, IInv, PendingOK
    <2>2. CASE Full # {}
        <3>1. PICK i \in Full : flash[i].handle + 1 = el.handle
            BY <2>2 DEF IInv, PendingOK
        <3>2. \A j \in Full : flash[j].handle <= flash[i].handle
            BY <1>1, <1>4, <1>5, <3>1
        <3>3. Found = flash[i] /\ Found # NoRec
            BY <3>2, FoundIsNewest
        <3> QED
            BY <3>1, <3>3 DEF Cell!Version
    <2> QED
        BY <2>1, <2>2
<1> QED
    BY <1>6, <1>7, <1>9, <1>10, <1>11, <1>12 DEF IInv

\* A torn write destroys an older record or a free slot.
LEMMA TornStep ==
    ASSUME Sound, IInv, pc = "write", flash' = Written(NoRec, off), Back, acked' = acked
    PROVE  IInv' /\ Found' = Found
<1> TypeOK /\ FlashOK /\ AckedOK
    BY DEF IInv
<1>1. /\ el \in Records /\ off \in Slots
      /\ \A i \in Full : flash[i].handle < el.handle
    BY DEF IInv, PendingOK
<1>2. /\ flash' \in [Offsets -> Records \cup {NoRec}]
      /\ flash'[off] = NoRec
      /\ \A o \in Offsets : o # off => flash'[o] = flash[o]
      /\ Full' = Full \ {off}
    BY <1>1, WrittenAtSlot
<1>3. pc' = "idle" /\ el' = NoRec /\ off' = 0
    BY DEF Back
<1>4. \A i \in Full : i \in Offsets /\ flash[i].handle \in Nat
    BY DEF TypeOK, Full, Valid, Slots, Records
<1>5. TypeOK'
    BY <1>1, <1>2, <1>3 DEF TypeOK, Offsets, Sound
<1>6. FlashOK'
    BY <1>1, <1>2, <1>4 DEF FlashOK
<1>7. PendingOK'
    BY <1>3 DEF PendingOK
<1>8. CASE Full = {}
    <2>1. Full' = {}
        BY <1>2, <1>8
    <2>2. Found = NoRec /\ Found' = NoRec
        BY <1>8, <2>1, FoundNothing DEF Full, Found
    <2>3. AckedOK'
        BY <1>8 DEF AckedOK
    <2> QED
        BY <1>5, <1>6, <1>7, <2>2, <2>3 DEF IInv
<1>9. CASE Full # {}
    <2>1. PICK i \in Full : flash[i].handle + 1 = el.handle /\ i # off
        BY <1>9 DEF IInv, PendingOK
    <2>2. el.handle \in Nat
        BY <1>1 DEF Records
    <2>3. \A j \in Full : flash[j].handle <= flash[i].handle
        BY <1>1, <1>4, <2>1, <2>2
    <2>4. Found = flash[i] /\ FoundAt(Slots) = {i}
        BY <2>3, FoundIsNewest
    <2>5. i \in Full' /\ flash'[i] = flash[i]
        BY <1>2, <1>4, <2>1
    <2>6. \A j \in Full' : flash'[j] = flash[j] /\ j \in Full
        BY <1>2, <1>4
    <2>7. FoundAt(Slots)' = {i}
        <3>1. FoundAt(Slots)' = {k \in Full' : \A j \in Full' :
                  \/ flash'[j].handle < flash'[k].handle
                  \/ flash'[j].handle = flash'[k].handle /\ j <= k}
            BY DEF FoundAt, NewestOf, Full
        <3>2. \A j \in Full : j \in Nat
            BY <1>4 DEF Offsets
        <3>3. \A j \in Full' : flash'[j].handle <= flash'[i].handle
            BY <2>3, <2>5, <2>6
        <3> QED
            BY <1>6, <1>4, <2>5, <2>6, <3>1, <3>2, <3>3 DEF FlashOK
    <2>8. Found' = Found
        BY <2>4, <2>5, <2>7 DEF Found, Full
    <2>9. AckedOK'
        <3>1. SUFFICES ASSUME acked # NoRec
                       PROVE  flash[i] = acked \/ flash[i].handle > acked.handle
            BY <2>5 DEF AckedOK
        <3>2. PICK k \in Full : flash[k] = acked \/ flash[k].handle > acked.handle
            BY <3>1 DEF AckedOK
        <3>3. acked.handle \in Nat /\ flash[k].handle <= flash[i].handle
            BY <2>3, <3>1 DEF TypeOK, Records
        <3> QED
            BY <1>4, <3>2, <3>3 DEF FlashOK
    <2> QED
        BY <1>5, <1>6, <1>7, <2>8, <2>9 DEF IInv
<1> QED
    BY <1>8, <1>9

\* Whatever an erase leaves, it is what was there.
LEMMA EraseStep ==
    ASSUME Sound, IInv, Erase \/ EraseStops
    PROVE  /\ IInv'
           /\ Cell!Version(Found) = MaxHandle
           /\ Found' = Found \/ Found' = NoRec \/ (Found' \in Records /\ Found'.handle < MaxHandle)
<1> TypeOK /\ FlashOK
    BY DEF IInv
<1>1. /\ pc = "erase" /\ el \in Records /\ off = 0 /\ el.handle = 1
      /\ acked = NoRec /\ acked' = NoRec
    BY DEF IInv, PendingOK, Erase, EraseStops
<1>2. PICK i \in Full : flash[i].handle = MaxHandle
    BY <1>1 DEF IInv, PendingOK
<1>3. \A j \in Full : j \in Offsets /\ j \in Nat /\ flash[j].handle \in 1 .. MaxHandle
    BY DEF TypeOK, Full, Valid, Slots, Records, Offsets
<1>4. Found = flash[i] /\ Found # NoRec
    BY <1>2, <1>3, FoundIsNewest
<1>5. Cell!Version(Found) = MaxHandle
    BY <1>2, <1>4 DEF Cell!Version
<1>6. /\ flash' \in [Offsets -> Records \cup {NoRec}]
      /\ \A o \in Offsets : flash'[o] \in {NoRec, flash[o]}
    BY DEF TypeOK, Erase, EraseStops
<1>7. \A j \in Full' : j \in Full /\ flash'[j] = flash[j]
    BY <1>6 DEF Full, Valid, Slots
<1>8. FlashOK'
    BY <1>6, <1>7 DEF FlashOK
<1>9. 0 \in Slots
    <2>1. 0 \in Offsets /\ 0 = 0 * ElemSize
        BY DEF Offsets, Sound
    <2> QED
        BY <2>1 DEF Slots
<1>10. IInv'
    <2>1. AckedOK'
        BY <1>1 DEF AckedOK
    <2>2. CASE Erase
        <3>1. Full' = {} /\ pc' = "write" /\ el' = el /\ off' = off
            BY <2>2 DEF Erase, Full, Valid, Slots
        <3>2. TypeOK'
            BY <1>1, <1>6, <3>1 DEF TypeOK
        <3>3. PendingOK'
            BY <1>1, <1>9, <3>1 DEF PendingOK
        <3> QED
            BY <1>8, <2>1, <3>2, <3>3 DEF IInv
    <2>3. CASE EraseStops
        <3>1. pc' = "idle" /\ el' = NoRec /\ off' = 0
            BY <2>3 DEF EraseStops, Back
        <3>2. TypeOK' /\ PendingOK'
            BY <1>1, <1>6, <1>9, <3>1 DEF TypeOK, PendingOK, Slots
        <3> QED
            BY <1>8, <2>1, <3>2 DEF IInv
    <2> QED
        BY <2>2, <2>3
<1>11. Found' = Found \/ Found' = NoRec \/ (Found' \in Records /\ Found'.handle < MaxHandle)
    <2>1. CASE Full' = {}
        BY <2>1 DEF Found, Full
    <2>2. CASE Full' # {}
        <3>1. \A k \in Full' : flash'[k].handle \in 1 .. MaxHandle
            BY <1>3, <1>7
        <3>2. \E k \in Full' : \A j \in Full' : flash'[j].handle <= flash'[k].handle
            BY <2>2, <3>1, NewestExists
        <3>3. PICK k \in Full' : \A j \in Full' : flash'[j].handle <= flash'[k].handle
            BY <3>2
        <3>4. FoundAt(Slots)' = {l \in Full' : \A j \in Full' :
                  \/ flash'[j].handle < flash'[l].handle
                  \/ flash'[j].handle = flash'[l].handle /\ j <= l}
            BY DEF FoundAt, NewestOf, Full
        <3>5. FoundAt(Slots)' = {k}
            BY <1>3, <1>7, <1>8, <3>3, <3>4 DEF FlashOK
        <3>6. Found' = flash[k] /\ k \in Full
            BY <1>7, <2>2, <3>3, <3>5 DEF Found, Full
        <3>7. flash[k] \in Records /\ (flash[k].handle = MaxHandle => k = i)
            BY <1>2, <3>6 DEF TypeOK, Full, Valid, Slots, FlashOK
        <3> QED
            BY <1>3, <1>4, <3>6, <3>7
    <2> QED
        BY <2>1, <2>2
<1> QED
    BY <1>5, <1>10, <1>11

-----------------------------------------------------------------------------
(* The theorems *)

\* Every step keeps the invariant and is a step of the cell.
LEMMA Step ==
    ASSUME Sound, IInv, [Next]_vars
    PROVE  IInv' /\ [Cell!Next]_Found
<1>1. ASSUME NEW v \in Values, Set(v) PROVE IInv' /\ [Cell!Next]_Found
    BY <1>1, SetStep
<1>2. ASSUME Erase \/ EraseStops PROVE IInv' /\ [Cell!Next]_Found
    <2>1. CASE Found' = Found
        BY <1>2, <2>1, EraseStep
    <2>2. CASE Found' = NoRec
        BY <1>2, <2>2, EraseStep DEF Cell!Next, Cell!Recycle, Cell!Version
    <2>3. CASE Found' \in Records /\ Found'.handle < MaxHandle
        BY <1>2, <2>3, EraseStep DEF Cell!Next, Cell!Recycle, Cell!Version, Cell!Records, Records
    <2> QED
        BY <1>2, <2>1, <2>2, <2>3, EraseStep
<1>3. ASSUME pc = "write", flash' = Written(el, off), Back, acked' \in {acked, el}
      PROVE  IInv' /\ [Cell!Next]_Found
    <2>1. IInv' /\ Found' = el /\ el.handle = Cell!Version(Found) + 1
        BY <1>3, WriteStep
    <2>2. el \in Records
        BY <1>3 DEF IInv, PendingOK
    <2>3. PICK n \in 1 .. MaxHandle, v \in Values : el = [handle |-> n, data |-> v]
        BY <2>2 DEF Records
    <2>4. Cell!Version(Found) = n - 1 /\ Found' = [handle |-> Cell!Version(Found) + 1, data |-> v]
        <3>1. Cell!Version(Found) \in Int
            <4>1. CASE Full = {}
                BY <4>1, FoundNothing DEF Cell!Version
            <4>2. CASE Full # {}
                <5>1. \A i \in Full : flash[i].handle \in 1 .. MaxHandle
                    BY DEF IInv, TypeOK, Full, Valid, Slots, Records
                <5>2. PICK i \in Full : \A j \in Full : flash[j].handle <= flash[i].handle
                    BY <4>2, <5>1, NewestExists
                <5>3. Found = flash[i]
                    BY <5>2, FoundIsNewest DEF IInv
                <5> QED
                    BY <5>1, <5>3 DEF Cell!Version
            <4> QED
                BY <4>1, <4>2
        <3> QED
            BY <2>1, <2>3, <3>1
    <2> QED
        BY <2>1, <2>3, <2>4 DEF Cell!Next, Cell!Commit
<1>4. ASSUME Write PROVE IInv' /\ [Cell!Next]_Found
    BY <1>3, <1>4 DEF Write
<1>5. ASSUME WriteStops PROVE IInv' /\ [Cell!Next]_Found
    <2>1. CASE flash' = Written(el, off)
        BY <1>3, <1>5, <2>1 DEF WriteStops
    <2>2. CASE flash' = Written(NoRec, off)
        BY <1>5, <2>2, TornStep DEF WriteStops
    <2>3. CASE flash' = flash
        <3>1. Full' = Full /\ Found' = Found /\ FlashOK' /\ AckedOK'
            BY <1>5, <2>3 DEF WriteStops, IInv, Full, Valid, Found, FoundAt, NewestOf, FlashOK, AckedOK
        <3>2. TypeOK' /\ PendingOK'
            BY <1>5, <2>3 DEF WriteStops, IInv, TypeOK, PendingOK, Back, Offsets, Sound
        <3> QED
            BY <3>1, <3>2 DEF IInv
    <2> QED
        BY <1>5, <2>1, <2>2, <2>3 DEF WriteStops
<1>6. CASE UNCHANGED vars
    <2>1. Full' = Full /\ Found' = Found
        BY <1>6 DEF vars, Full, Valid, Found, FoundAt, NewestOf
    <2> QED
        BY <1>6, <2>1 DEF vars, IInv, TypeOK, FlashOK, PendingOK, AckedOK
<1> QED
    BY <1>1, <1>2, <1>4, <1>5, <1>6 DEF Next

LEMMA InvAlways == ASSUME Sound PROVE Spec => []IInv
<1>1. Init => IInv
    BY InvInit
<1>2. IInv /\ [Next]_vars => IInv'
    BY Step
<1> QED
    BY <1>1, <1>2, PTL DEF Spec

\* Every variable keeps its type, with padding, with a single slot, or none, and when
\* reads fail too: no handle and no offset leaves its range.
THEOREM TypeCorrect == Spec => []TypeOK
<1> DEFINE Typed == TypeOK /\ (pc # "idle" => el \in Records)
<1>1. Init => Typed
    BY DEF Init, TypeOK, Offsets
<1>2. Typed /\ [Next]_vars => Typed'
    <2> SUFFICES ASSUME Typed, [Next]_vars PROVE Typed'
        OBVIOUS
    <2>1. ASSUME NEW v \in Values, Set(v) PROVE Typed'
        <3>1. PICK readable \in SUBSET Slots : SetAfter(v, FoundAt(readable)) /\ UNCHANGED flash
            BY <2>1 DEF Set
        <3>2. [handle |-> 1, data |-> v] \in Records /\ 0 \in Offsets
            BY DEF Records, Offsets
        <3>3. CASE FoundAt(readable) = {}
            BY <3>1, <3>2, <3>3 DEF SetAfter, TypeOK
        <3>4. CASE FoundAt(readable) # {}
            <4>1. PICK i \in FoundAt(readable) :
                    IF Wraps(flash[i].handle)
                    THEN /\ el' = [handle |-> 1, data |-> v] /\ off' = 0
                         /\ pc' = "erase" /\ acked' = NoRec
                    ELSE /\ el' = [handle |-> flash[i].handle + 1, data |-> v]
                         /\ off' = NextOffset(i) /\ pc' = "write" /\ UNCHANGED acked
                BY <3>1, <3>4 DEF SetAfter
            <4>2. i \in Offsets /\ flash[i] \in Records
                BY <3>1 DEF FoundAt, NewestOf, Valid, Slots, TypeOK
            <4>3. NextOffset(i) \in Offsets
                BY <4>2 DEF NextOffset, Offsets
            <4>4. CASE Wraps(flash[i].handle)
                BY <3>1, <3>2, <4>1, <4>4 DEF TypeOK
            <4>5. CASE ~Wraps(flash[i].handle)
                <5>1. [handle |-> flash[i].handle + 1, data |-> v] \in Records
                    BY <4>2, <4>5 DEF Records, Wraps
                <5> QED
                    BY <3>1, <4>1, <4>3, <4>5, <5>1 DEF TypeOK
            <4> QED
                BY <4>4, <4>5
        <3> QED
            BY <3>3, <3>4
    <2>2. CASE Erase
        BY <2>2 DEF Erase, TypeOK
    <2>3. CASE EraseStops
        BY <2>3 DEF EraseStops, Back, TypeOK, Offsets
    <2>4. ASSUME NEW r \in Records \cup {NoRec}
          PROVE  Written(r, off) \in [Offsets -> Records \cup {NoRec}]
        BY DEF Written, TypeOK
    <2>5. CASE Write
        BY <2>4, <2>5 DEF Write, Back, TypeOK, Offsets
    <2>6. CASE WriteStops
        <3>1. flash' \in [Offsets -> Records \cup {NoRec}]
            BY <2>4, <2>6 DEF WriteStops, TypeOK
        <3> QED
            BY <2>6, <3>1 DEF WriteStops, Back, TypeOK, Offsets
    <2>7. CASE UNCHANGED vars
        BY <2>7 DEF vars, TypeOK
    <2> QED
        BY <2>1, <2>2, <2>3, <2>5, <2>6, <2>7 DEF Next
<1>3. Typed => TypeOK
    OBVIOUS
<1> QED
    BY <1>1, <1>2, <1>3, PTL DEF Spec

\* No crash, torn write or failed call loses what a set() acknowledged.
THEOREM AcknowledgedIsDurable == ASSUME Sound PROVE Spec => []AckedNotLost
<1>1. IInv => AckedNotLost
    <2> SUFFICES ASSUME IInv, acked # NoRec
                 PROVE  Found # NoRec /\ (Found = acked \/ Found.handle > acked.handle)
        BY DEF AckedNotLost
    <2>1. PICK k \in Full : flash[k] = acked \/ flash[k].handle > acked.handle
        BY DEF IInv, AckedOK
    <2>2. \A i \in Full : flash[i].handle \in 1 .. MaxHandle
        BY DEF IInv, TypeOK, Full, Valid, Slots, Records
    <2>3. PICK i \in Full : \A j \in Full : flash[j].handle <= flash[i].handle
        BY <2>1, <2>2, NewestExists
    <2>4. Found = flash[i] /\ Found # NoRec
        BY <2>3, FoundIsNewest DEF IInv
    <2>5. acked.handle \in Nat /\ flash[k].handle <= flash[i].handle
        BY <2>3 DEF IInv, TypeOK, Records
    <2> QED
        BY <2>1, <2>2, <2>4, <2>5 DEF IInv, FlashOK
<1> QED
    BY InvAlways, <1>1, PTL

\* The write of set() never touches the record that a crash would fall back to, while that
\* record can be read.
THEOREM NewestIsSafe == ASSUME Sound PROVE Spec => []NewestNotOverwritten
<1>1. IInv => NewestNotOverwritten
    <2> SUFFICES ASSUME IInv, pc = "write", NEW i \in FoundAt(Slots), Overlap(i, off)
                 PROVE  FALSE
        BY DEF NewestNotOverwritten
    <2>1. i \in Full /\ off \in Slots
        BY DEF IInv, PendingOK, FoundAt, NewestOf, Full
    <2>2. i = off
        BY <2>1, SlotsApart DEF Full, Valid
    <2>3. PICK k \in Full : flash[k].handle + 1 = el.handle /\ k # off
        BY <2>1 DEF IInv, PendingOK
    <2>4. \A j \in Full : flash[j].handle < el.handle /\ flash[j].handle \in Nat
        BY DEF IInv, PendingOK, TypeOK, Full, Valid, Slots, Records
    <2>5. flash[k].handle < flash[i].handle \/ flash[k].handle = flash[i].handle
        BY <2>3 DEF FoundAt, NewestOf, Full
    <2> QED
        BY <2>1, <2>2, <2>3, <2>4, <2>5 DEF IInv, FlashOK, Records, PendingOK
<1> QED
    BY InvAlways, <1>1, PTL

\* Acknowledged handles grow, whatever reads fail but that of the newest record: it alone
\* lets the code give a handle out again.
THEOREM HandlesGrow == ASSUME Sound PROVE Spec => AckedHandlesIncrease
<1>1. IInv /\ [Next]_vars
      => [acked # NoRec /\ acked' # NoRec /\ acked' # acked => acked'.handle > acked.handle]_vars
    <2> SUFFICES ASSUME IInv, Next, acked # NoRec, acked' # NoRec, acked' # acked
                 PROVE  acked'.handle > acked.handle
        BY DEF vars
    <2>1. pc = "write" /\ acked' = el
        BY SetStep, EraseStep DEF Next, Write, WriteStops, Erase, EraseStops, Set, SetAfter
    <2>2. PICK i \in Full : flash[i] = acked \/ flash[i].handle > acked.handle
        BY DEF IInv, AckedOK
    <2>3. flash[i].handle < el.handle /\ flash[i].handle \in Nat /\ el.handle \in Nat
        BY <2>1 DEF IInv, PendingOK, TypeOK, Full, Valid, Slots, Records
    <2>4. acked.handle \in Nat
        BY DEF IInv, TypeOK, Records
    <2> QED
        BY <2>1, <2>2, <2>3, <2>4
<1> QED
    BY InvAlways, <1>1, PTL DEF Spec, AckedHandlesIncrease

\* NvStorage implements the versioned cell.
THEOREM Refinement == ASSUME Sound PROVE Spec => ImplementsCell
<1>1. Init => Cell!Init
    BY FoundNothing DEF Init, Cell!Init, Full, Valid, Slots
<1>2. IInv /\ [Next]_vars => [Cell!Next]_Found
    BY Step
<1> QED
    BY InvAlways, <1>1, <1>2, PTL DEF Spec, ImplementsCell, Cell!Spec
=============================================================================
