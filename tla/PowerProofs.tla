---------------------------- MODULE PowerProofs ----------------------------
(***************************************************************************)
(* What holds of the two chips of the supply, whatever fails and in         *)
(* whatever order: the boot of the controller, for any number of users,     *)
(* blocks and bytes; the settings of the charger, for any number of         *)
(* threads and calls, any values and any contents of its registers.         *)
(***************************************************************************)
EXTENDS TPSBoot, BQ25798, SequenceTheorems, TLAPS

(* The boot of the controller *)

\* The worker's places between taking the lock and giving it back.
InRound == {"mode", "irq", "pbms", "probe", "load", "pbmc", "check", "setup"}

InOrder(s) == \A i \in 1 .. Len(s) : s[i] = i

\* The entries of s grow, up to a bound.
Rising(s) == \A i, j \in 1 .. Len(s) : i < j => s[i] < s[j]
UpTo(s, k) == \A i \in 1 .. Len(s) : s[i] <= k

\* Inside a round the worker has the lock, and nobody else ever keeps it.
LockInv ==
    /\ lock \in {Worker, Nobody}
    /\ pc \in InRound => lock = Worker

\* The blocks that the worker counts are those that an open session got.
SessionInv ==
    /\ pc \in {"mode", "irq", "pbms", "probe"} => n = 0
    /\ pc = "load" => n < Blocks
    /\ pc \in {"probe", "load"} /\ open => Len(got) = n /\ InOrder(got)

\* The worker is past its round only when it found the controller in APP.
SeenInv == pc \in {"setup", "charger"} => seen

\* A transfer has touched registers up to the bytes it counts: each of them, unless it
\* counts some blindly.
TransferInv ==
    \A u \in Users : sent[u] >= 0 =>
        /\ sent[u] < Size /\ UpTo(moved[u], sent[u])
        /\ u \notin blind => Len(moved[u]) = sent[u]

IInv ==
    /\ TypeOK
    /\ LockInv
    /\ SessionInv
    /\ PatchClean
    /\ SeenInv
    /\ TransferInv
    /\ TransferInOrder

-----------------------------------------------------------------------------
USE OwnersAssumption, CancelAssumption

LEMMA Sizes == /\ Blocks \in Nat /\ Blocks > 0
               /\ Size \in Nat /\ Size > 0
               /\ ChunkMax \in Nat /\ ChunkMax > 0
    BY SizesAssumption

USE Sizes

WorkerStep == Run \/ Start \/ Stop \/ Cancel
DeviceStep == Disturb \/ Reset \/ Booted

\* A session begins with nothing.
LEMMA NothingGot == <<>> \in Seq(-1 .. Blocks) /\ Len(<<>>) = 0
    BY EmptySeq

\* A chunk is not empty and ends at the end of the transfer at the latest.
LEMMA ChunkBounds ==
    ASSUME NEW done \in 0 .. Size - 1
    PROVE  ChunkLen(done) \in 1 .. Size - done
    BY DEF ChunkLen

\* It goes on behind the registers touched so far, and where they end if they are all.
LEMMA RegistersFollow ==
    ASSUME NEW done \in 0 .. Size - 1, NEW s \in Seq(1 .. Size), Rising(s), UpTo(s, done)
    PROVE  /\ s \o Registers(done) \in Seq(1 .. Size)
           /\ Rising(s \o Registers(done))
           /\ UpTo(s \o Registers(done), done + ChunkLen(done))
           /\ Len(s) = done /\ InOrder(s) =>
                 /\ Len(s \o Registers(done)) = done + ChunkLen(done)
                 /\ InOrder(s \o Registers(done))
<1> DEFINE t == s \o Registers(done)
<1>1. ChunkLen(done) \in 1 .. Size - done
    BY ChunkBounds
<1>2. Registers(done) \in Seq(1 .. Size) /\ Len(Registers(done)) = ChunkLen(done)
    <2>1. Registers(done) \in [1 .. ChunkLen(done) -> 1 .. Size]
        BY <1>1 DEF Registers
    <2>2. Registers(done) \in Seq(1 .. Size)
        <3>1. ChunkLen(done) \in Nat
            BY <1>1
        <3>2. \E k \in Nat : Registers(done) \in [1 .. k -> 1 .. Size]
            BY <2>1, <3>1, Zenon
        <3> QED
            BY <3>2, SeqDef
    <2>3. 1 .. ChunkLen(done) = 1 .. Len(Registers(done)) /\ Len(Registers(done)) \in Nat
        BY <2>1, <2>2, LenProperties
    <2> QED
        BY <1>1, <2>2, <2>3
<1>3. \A i \in 1 .. ChunkLen(done) : Registers(done)[i] = done + i
    BY DEF Registers
<1>4. /\ t \in Seq(1 .. Size) /\ Len(t) = Len(s) + ChunkLen(done) /\ Len(s) \in Nat
      /\ \A i \in 1 .. Len(t) :
            t[i] = IF i <= Len(s) THEN s[i] ELSE Registers(done)[i - Len(s)]
    <2>1. /\ t \in Seq(1 .. Size)
          /\ Len(t) = Len(s) + Len(Registers(done))
          /\ \A i \in 1 .. Len(s) + Len(Registers(done)) :
                t[i] = IF i <= Len(s) THEN s[i] ELSE Registers(done)[i - Len(s)]
        BY <1>2, ConcatProperties
    <2> QED
        BY <1>2, <2>1, LenProperties
<1>5. /\ \A i \in 1 .. Len(s) : t[i] = s[i] /\ s[i] \in 1 .. done
      /\ \A i \in Len(s) + 1 .. Len(t) : t[i] = done + i - Len(s)
    <2>1. ASSUME NEW i \in 1 .. Len(s) PROVE t[i] = s[i] /\ s[i] \in 1 .. done
        <3>1. i \in 1 .. Len(t) /\ i <= Len(s)
            BY <1>1, <1>4
        <3>2. s[i] \in 1 .. Size /\ s[i] <= done
            BY ElementOfSeq DEF UpTo
        <3> QED
            BY <1>4, <3>1, <3>2
    <2>2. ASSUME NEW i \in Len(s) + 1 .. Len(t) PROVE t[i] = done + i - Len(s)
        <3>1. i \in 1 .. Len(t) /\ ~(i <= Len(s)) /\ i - Len(s) \in 1 .. ChunkLen(done)
            BY <1>1, <1>4
        <3>2. t[i] = Registers(done)[i - Len(s)]
            BY <1>4, <3>1
        <3>3. Registers(done)[i - Len(s)] = done + (i - Len(s))
            BY <1>3, <3>1
        <3> QED
            BY <3>1, <3>2, <3>3, <1>4
    <2> QED
        BY <2>1, <2>2
<1>6. \A i \in 1 .. Len(t) : i \in 1 .. Len(s) \/ i \in Len(s) + 1 .. Len(t)
    BY <1>1, <1>4
<1> HIDE DEF t
<1>7. Rising(t)
    <2>1. ASSUME NEW i \in 1 .. Len(t), NEW j \in 1 .. Len(t), i < j PROVE t[i] < t[j]
        <3>1. CASE j \in 1 .. Len(s)
            <4>1. i \in 1 .. Len(s)
                BY <1>4, <2>1, <3>1
            <4>2. s[i] < s[j]
                BY <2>1, <3>1, <4>1 DEF Rising
            <4> QED
                BY <1>5, <3>1, <4>1, <4>2
        <3>2. CASE i \in 1 .. Len(s) /\ j \in Len(s) + 1 .. Len(t)
            <4>1. t[i] \in 1 .. done /\ t[j] = done + j - Len(s)
                BY <1>5, <3>2
            <4> QED
                BY <1>4, <3>2, <4>1
        <3>3. CASE i \in Len(s) + 1 .. Len(t) /\ j \in Len(s) + 1 .. Len(t)
            BY <1>4, <1>5, <2>1, <3>3
        <3> QED
            BY <1>6, <3>1, <3>2, <3>3
    <2> QED
        BY <2>1 DEF Rising
<1>8. UpTo(t, done + ChunkLen(done))
    <2>1. ASSUME NEW i \in 1 .. Len(t) PROVE t[i] <= done + ChunkLen(done)
        <3>1. CASE i \in 1 .. Len(s)
            BY <1>1, <1>5, <3>1
        <3>2. CASE i \in Len(s) + 1 .. Len(t)
            BY <1>1, <1>4, <1>5, <3>2
        <3> QED
            BY <1>6, <3>1, <3>2
    <2> QED
        BY <2>1 DEF UpTo
<1>9. ASSUME Len(s) = done, InOrder(s)
      PROVE  Len(t) = done + ChunkLen(done) /\ InOrder(t)
    <2>1. ASSUME NEW i \in 1 .. Len(t) PROVE t[i] = i
        <3>1. CASE i \in 1 .. Len(s)
            BY <1>5, <1>9, <3>1 DEF InOrder
        <3>2. CASE i \in Len(s) + 1 .. Len(t)
            BY <1>4, <1>5, <1>9, <3>2
        <3> QED
            BY <1>6, <3>1, <3>2
    <2> QED
        BY <1>4, <1>9, <2>1 DEF InOrder
<1> QED
    BY <1>4, <1>7, <1>8, <1>9 DEF t

\* A foreign command among the blocks leaves a sequence of blocks and marks.
LEMMA SpoiledType ==
    ASSUME NEW g \in Seq(-1 .. Blocks)
    PROVE  Spoiled(g) \in Seq(-1 .. Blocks)
<1>1. Foreign \in -1 .. Blocks
    BY DEF Foreign
<1> QED
    BY <1>1, AppendProperties DEF Spoiled

-----------------------------------------------------------------------------
\* The worker's steps keep the types.
LEMMA WorkerType ==
    ASSUME TypeOK, SessionInv, WorkerStep
    PROVE  TypeOK'
<1> USE DEF TypeOK, Labels, users, controller, At, Goto, Again, Leave, LoopsOn, Unlocked
<1>1. CASE TakeLock
    BY <1>1 DEF TakeLock, LockFree
<1>2. CASE ReadMode
    BY <1>2 DEF ReadMode
<1>3. CASE EnableIrq
    BY <1>3 DEF EnableIrq
<1>4. CASE Pbms
    BY <1>4, NothingGot DEF Pbms
<1>5. CASE Probe
    BY <1>5 DEF Probe
<1>6. CASE Load
    <2>1. n \in 0 .. Blocks - 1
        BY <1>6 DEF Load, SessionInv
    <2>2. got' \in Seq(-1 .. Blocks)
        <3>1. got \in Seq(-1 .. Blocks) /\ n + 1 \in -1 .. Blocks /\ Torn \in -1 .. Blocks
            BY <2>1 DEF Torn
        <3>2. Append(got, n + 1) \in Seq(-1 .. Blocks) /\ Append(got, Torn) \in Seq(-1 .. Blocks)
            BY <3>1, AppendProperties
        <3> QED
            BY <1>6, <3>1, <3>2 DEF Load
    <2>3. n' \in 0 .. Blocks /\ pc' \in Labels /\ (state = "Idle" <=> pc' = "off")
          /\ lock' \in {lock, Nobody}
        BY <1>6, <2>1 DEF Load
    <2> QED
        BY <1>6, <2>2, <2>3 DEF Load
<1>7. CASE Pbmc
    BY <1>7, NothingGot DEF Pbmc
<1>8. CASE Check
    BY <1>8 DEF Check
<1>9. CASE Setup
    BY <1>9 DEF Setup
<1>10. CASE Publish
    BY <1>10 DEF Publish, AfterPublish, Null
<1>11. CASE Poll
    BY <1>11 DEF Poll, NextRound
<1>12. CASE PollWrite
    BY <1>12 DEF PollWrite, NextRound
<1>13. CASE Start
    BY <1>13 DEF Start
<1>14. CASE Stop
    BY <1>14 DEF Stop
<1>15. CASE Cancel
    BY <1>15 DEF Cancel
<1> QED
    BY <1>1, <1>2, <1>3, <1>4, <1>5, <1>6, <1>7, <1>8, <1>9, <1>10, <1>11, <1>12, <1>13, <1>14,
       <1>15 DEF WorkerStep, Run, Round

\* So do the controller's, and the users'.
LEMMA DeviceType ==
    ASSUME TypeOK, DeviceStep
    PROVE  TypeOK'
    BY NothingGot
       DEF TypeOK, Labels, users, worker, controller, DeviceStep, Disturb, Reset, Booted

LEMMA StartTransferType ==
    ASSUME TypeOK, NEW u \in Users, StartTransfer(u)
    PROVE  TypeOK'
    BY DEF TypeOK, Labels, worker, controller, StartTransfer

\* What a chunk does to the user's transfer, whatever comes of its command: it fails, or
\* counts its bytes, and these have been moved or not been looked at.
Extended(u) == [moved EXCEPT ![u] = @ \o Registers(sent[u])]
End(u)      == sent[u] + ChunkLen(sent[u])

Fails(u) ==
    /\ moved' \in {moved, Extended(u)} /\ blind' = blind
    /\ sent' = [sent EXCEPT ![u] = -1] /\ res' = [res EXCEPT ![u] = "error"]
Counts(u) ==
    \/ moved' = Extended(u) /\ blind' = blind
    \/ moved' \in {moved, Extended(u)} /\ blind' = blind \cup {u}
GoesOn(u) ==
    /\ Counts(u) /\ End(u) < Size
    /\ sent' = [sent EXCEPT ![u] = End(u)] /\ res' = [res EXCEPT ![u] = "none"]
Ends(u) ==
    /\ Counts(u) /\ ~(End(u) < Size)
    /\ sent' = [sent EXCEPT ![u] = -1] /\ res' = [res EXCEPT ![u] = "ok"]

LEMMA ChunkEffect ==
    ASSUME NEW u \in Users, Chunk(u)
    PROVE  /\ Fails(u) \/ GoesOn(u) \/ Ends(u)
           /\ sent[u] >= 0 /\ lock = Nobody
           /\ got' \in {got, Spoiled(got)}
           /\ UNCHANGED <<lock, worker, bad, mode, irq, open, monitor>>
<1>1. PICK o \in Outcomes :
          /\ blind' = IF (o.ok /\ (o.read => o.runs /\ mode = "APP")) /\ ~o.read
                      THEN blind \cup {u} ELSE blind
          /\ moved' = IF o.runs /\ mode = "APP" THEN Extended(u) ELSE moved
          /\ got' = IF o.runs /\ open THEN Spoiled(got) ELSE got
          /\ sent' = [sent EXCEPT ![u] =
                 IF (o.ok /\ (o.read => o.runs /\ mode = "APP")) /\ End(u) < Size
                 THEN End(u) ELSE -1]
          /\ res' = [res EXCEPT ![u] =
                 IF ~(o.ok /\ (o.read => o.runs /\ mode = "APP")) THEN "error"
                 ELSE IF End(u) < Size THEN "none" ELSE "ok"]
    BY DEF Chunk, Extended, End
<1> DEFINE good == o.ok /\ (o.read => o.runs /\ mode = "APP")
<1>2. moved' \in {moved, Extended(u)}
    BY <1>1, Zenon
<1>3. ASSUME good PROVE Counts(u)
    <2>1. CASE o.read
        BY <1>1, <1>3, <2>1, Zenon DEF Counts
    <2>2. CASE ~o.read
        BY <1>1, <1>2, <1>3, <2>2, Zenon DEF Counts
    <2> QED
        BY <2>1, <2>2
<1> HIDE DEF good
<1>4. /\ sent' = [sent EXCEPT ![u] = IF good /\ End(u) < Size THEN End(u) ELSE -1]
      /\ res' = [res EXCEPT ![u] =
             IF ~good THEN "error" ELSE IF End(u) < Size THEN "none" ELSE "ok"]
      /\ ~good => blind' = blind
    BY <1>1, Zenon DEF good
<1>5. ASSUME ~good PROVE Fails(u)
    BY <1>2, <1>4, <1>5, Zenon DEF Fails
<1>6. ASSUME good, End(u) < Size PROVE GoesOn(u)
    BY <1>3, <1>4, <1>6, Zenon DEF GoesOn
<1>7. ASSUME good, ~(End(u) < Size) PROVE Ends(u)
    BY <1>3, <1>4, <1>7, Zenon DEF Ends
<1>8. sent[u] >= 0 /\ lock = Nobody /\ UNCHANGED <<lock, worker, bad, mode, irq, open, monitor>>
    BY DEF Chunk, LockFree
<1>9. got' \in {got, Spoiled(got)}
    BY <1>1
<1> QED
    BY <1>5, <1>6, <1>7, <1>8, <1>9

\* Where it starts, and what it may add.
LEMMA ChunkRegisters ==
    ASSUME IInv, NEW u \in Users, sent[u] >= 0
    PROVE  /\ sent[u] \in 0 .. Size - 1 /\ End(u) \in sent[u] + 1 .. Size
           /\ Extended(u) \in [Users -> Seq(1 .. Size)]
           /\ \A v \in Users : Extended(u)[v] = IF v = u THEN moved[u] \o Registers(sent[u])
                                                        ELSE moved[v]
           /\ Rising(Extended(u)[u]) /\ UpTo(Extended(u)[u], End(u))
           /\ u \notin blind => Len(Extended(u)[u]) = End(u) /\ InOrder(Extended(u)[u])
<1>1. /\ sent[u] \in 0 .. Size - 1 /\ (u \notin blind => Len(moved[u]) = sent[u])
      /\ moved[u] \in Seq(1 .. Size) /\ Rising(moved[u]) /\ UpTo(moved[u], sent[u])
      /\ u \notin blind => InOrder(moved[u])
      /\ moved \in [Users -> Seq(1 .. Size)]
    <2>1. TypeOK /\ TransferInv /\ TransferInOrder
        BY DEF IInv
    <2>2. sent[u] \in 0 .. Size - 1 /\ moved[u] \in Seq(1 .. Size)
          /\ moved \in [Users -> Seq(1 .. Size)]
        BY <2>1 DEF TypeOK, TransferInv
    <2>3. UpTo(moved[u], sent[u]) /\ (u \notin blind => Len(moved[u]) = sent[u])
        BY <2>1, Zenon DEF TransferInv
    <2>4. Rising(moved[u]) /\ (u \notin blind => InOrder(moved[u]))
        BY <2>1, Zenon DEF TransferInOrder, Rising, InOrder
    <2> QED
        BY <2>2, <2>3, <2>4
<1>2. ChunkLen(sent[u]) \in 1 .. Size - sent[u]
    BY <1>1, ChunkBounds
<1>3. /\ moved[u] \o Registers(sent[u]) \in Seq(1 .. Size)
      /\ Rising(moved[u] \o Registers(sent[u]))
      /\ UpTo(moved[u] \o Registers(sent[u]), End(u))
      /\ u \notin blind => /\ Len(moved[u] \o Registers(sent[u])) = End(u)
                          /\ InOrder(moved[u] \o Registers(sent[u]))
    BY <1>1, RegistersFollow DEF End
<1>4. \A v \in Users : Extended(u)[v] = IF v = u THEN moved[u] \o Registers(sent[u])
                                                ELSE moved[v]
    BY <1>1 DEF Extended
<1>5. Extended(u) \in [Users -> Seq(1 .. Size)]
    BY <1>1, <1>3 DEF Extended
<1>6. End(u) \in sent[u] + 1 .. Size
    BY <1>1, <1>2 DEF End
<1>7. Extended(u)[u] = moved[u] \o Registers(sent[u])
    BY <1>4
<1> QED
    BY <1>1, <1>3, <1>4, <1>5, <1>6, <1>7

LEMMA ChunkType ==
    ASSUME IInv, NEW u \in Users, Chunk(u)
    PROVE  TypeOK'
<1>1. /\ Fails(u) \/ GoesOn(u) \/ Ends(u)
      /\ got' \in {got, Spoiled(got)}
      /\ UNCHANGED <<lock, worker, bad, mode, irq, open, monitor>>
    BY ChunkEffect
<1>2. End(u) \in 0 .. Size /\ Extended(u) \in [Users -> Seq(1 .. Size)]
    BY ChunkEffect, ChunkRegisters
<1>3. TypeOK
    BY DEF IInv
<1>4. got' \in Seq(-1 .. Blocks)
    BY <1>1, <1>3, SpoiledType DEF TypeOK
<1>5. moved' \in [Users -> Seq(1 .. Size)] /\ blind' \subseteq Users
    BY <1>1, <1>2, <1>3 DEF TypeOK, Fails, GoesOn, Ends, Counts
<1>6. sent' \in [Users -> -1 .. Size] /\ res' \in [Users -> {"none", "ok", "error"}]
    <2>1. -1 \in -1 .. Size /\ End(u) \in -1 .. Size
        BY <1>2
    <2>2. \E x \in -1 .. Size : sent' = [sent EXCEPT ![u] = x]
        BY <1>1, <2>1, Zenon DEF Fails, GoesOn, Ends
    <2>3. \E x \in {"none", "ok", "error"} : res' = [res EXCEPT ![u] = x]
        BY <1>1 DEF Fails, GoesOn, Ends
    <2> QED
        BY <1>3, <2>2, <2>3 DEF TypeOK
<1> QED
    BY <1>1, <1>3, <1>4, <1>5, <1>6 DEF TypeOK, worker

-----------------------------------------------------------------------------
\* The lock: only the worker keeps it from one step to the next.
LEMMA LockStep ==
    ASSUME IInv, [Next]_vars
    PROVE  LockInv'
<1> USE DEF IInv, LockInv, InRound
<1>1. CASE Run
    BY <1>1 DEF Run, Round, TakeLock, ReadMode, EnableIrq, Pbms, Probe, Load, Pbmc, Check, Setup,
                Publish, Poll, PollWrite, At, Goto, Again, Leave, Unlocked, NextRound, LockFree
<1>2. CASE Start \/ Stop \/ Cancel
    BY <1>2 DEF Start, Stop, Cancel, At, Goto
<1>3. CASE DeviceStep
    BY <1>3 DEF DeviceStep, Disturb, Reset, Booted, worker
<1>4. ASSUME NEW u \in Users, StartTransfer(u) \/ Chunk(u) PROVE LockInv'
    BY <1>4 DEF StartTransfer, Chunk, worker
<1>5. CASE UNCHANGED vars
    BY <1>5 DEF vars, worker
<1> QED
    BY <1>1, <1>2, <1>3, <1>4, <1>5 DEF Next, DeviceStep

\* The round's blocks.
LEMMA SessionStep ==
    ASSUME IInv, [Next]_vars
    PROVE  SessionInv' /\ PatchClean'
<1> USE DEF IInv, TypeOK, SessionInv, PatchClean, InOrder, At, Goto, Again, Leave, LoopsOn,
            controller
<1>1. CASE TakeLock
    BY <1>1 DEF TakeLock
<1>2. CASE ReadMode
    BY <1>2 DEF ReadMode
<1>3. CASE EnableIrq
    BY <1>3 DEF EnableIrq
<1>4. CASE Pbms
    BY <1>4, NothingGot DEF Pbms
<1>5. CASE Probe
    BY <1>5 DEF Probe
<1>6. CASE Load
    <2>1. n \in 0 .. Blocks - 1 /\ got \in Seq(-1 .. Blocks)
        BY <1>6 DEF Load
    <2>2. CASE open /\ got' = Append(got, n + 1) /\ n' = n + 1 /\ open' = open
               /\ pc' = IF IsLast(n + 1) THEN "pbmc" ELSE "load"
        <3>1. Len(got') = n' /\ InOrder(got')
            BY <1>6, <2>1, <2>2, AppendProperties DEF Load
        <3> QED
            BY <2>1, <2>2, <3>1 DEF IsLast
    <2>3. CASE pc' = "pbmc" /\ open' = open /\ got' \in {got, Append(got, Torn)}
               /\ (got' # got => open)
        <3>1. Len(Append(got, Torn)) = Len(got) + 1 /\ Append(got, Torn)[Len(got) + 1] = Torn
              /\ \A i \in 1 .. Len(got) : Append(got, Torn)[i] = got[i]
            BY <2>1, AppendProperties DEF Torn
        <3>2. open => Len(got) = n /\ InOrder(got)
            BY <1>6 DEF Load
        <3>3. CASE got' = got
            BY <2>3, <3>2, <3>3
        <3>4. CASE got' = Append(got, Torn) /\ open
            <4>1. Len(got') = n + 1 /\ got'[n + 1] = Torn /\ \A i \in 1 .. n : got'[i] = i
                BY <3>1, <3>2, <3>4
            <4>2. \A i \in 1 .. n + 1 : got'[i] = i \/ (got'[i] = Torn /\ i = n + 1)
                <5>1. ASSUME NEW i \in 1 .. n + 1 PROVE i \in 1 .. n \/ i = n + 1
                    BY <2>1
                <5> QED
                    BY <4>1, <5>1, Zenon
            <4> QED
                BY <2>3, <4>1, <4>2
        <3> QED
            BY <2>3, <3>3, <3>4
    <2>4. CASE Again /\ UNCHANGED <<n, got, open>>
        BY <2>4
    <2> QED
        BY <1>6, <2>2, <2>3, <2>4 DEF Load
<1>7. CASE Pbmc
    BY <1>7 DEF Pbmc
<1>8. CASE Check
    BY <1>8 DEF Check
<1>9. CASE Setup
    BY <1>9 DEF Setup
<1>10. CASE Publish \/ Poll \/ PollWrite
    BY <1>10 DEF Publish, Poll, PollWrite, NextRound
<1>11. CASE Start \/ Stop \/ Cancel
    <2>1. CASE Start \/ Cancel
        BY <2>1 DEF Start, Cancel
    <2>2. CASE Stop
        BY <2>2 DEF Stop
    <2> QED
        BY <1>11, <2>1, <2>2
<1>12. CASE DeviceStep
    BY <1>12 DEF DeviceStep, Disturb, Reset, Booted, worker
<1>13. ASSUME NEW u \in Users, StartTransfer(u) PROVE SessionInv' /\ PatchClean'
    BY <1>13 DEF StartTransfer, worker
<1>14. ASSUME NEW u \in Users, Chunk(u) PROVE SessionInv' /\ PatchClean'
    <2>1. pc \notin InRound
        BY <1>14, ChunkEffect DEF LockInv
    <2> QED
        BY <1>14, <2>1, ChunkEffect DEF worker, InRound
<1>15. CASE UNCHANGED vars
    BY <1>15 DEF vars, worker
<1> QED
    BY <1>1, <1>2, <1>3, <1>4, <1>5, <1>6, <1>7, <1>8, <1>9, <1>10, <1>11, <1>12, <1>13, <1>14,
       <1>15 DEF Next, Run, Round, DeviceStep

\* The worker is past its round because the controller was in APP, and sets the
\* charger once.
LEMMA SeenStep ==
    ASSUME IInv, [Next]_vars
    PROVE  SeenInv' /\ (charger' # charger => charger = Null /\ seen)
<1> USE DEF IInv, TypeOK, SeenInv, At, Goto, Again, Leave, LoopsOn, Null, controller
<1>1. CASE Run
    <2>1. CASE TakeLock \/ ReadMode \/ EnableIrq \/ Pbms
        BY <2>1 DEF TakeLock, ReadMode, EnableIrq, Pbms
    <2>2. CASE Probe \/ Load \/ Pbmc
        BY <2>2 DEF Probe, Load, Pbmc
    <2>3. CASE Check \/ Setup
        BY <2>3 DEF Check, Setup
    <2>4. CASE Publish \/ Poll \/ PollWrite
        BY <2>4 DEF Publish, AfterPublish, Poll, PollWrite, NextRound
    <2> QED
        BY <1>1, <2>1, <2>2, <2>3, <2>4 DEF Run, Round
<1>2. CASE Start \/ Stop \/ Cancel
    BY <1>2 DEF Start, Stop, Cancel
<1>3. CASE DeviceStep
    BY <1>3 DEF DeviceStep, Disturb, Reset, Booted, worker
<1>4. ASSUME NEW u \in Users, StartTransfer(u) \/ Chunk(u)
      PROVE  SeenInv' /\ (charger' # charger => charger = Null /\ seen)
    BY <1>4 DEF StartTransfer, Chunk, worker
<1>5. CASE UNCHANGED vars
    BY <1>5 DEF vars, worker
<1> QED
    BY <1>1, <1>2, <1>3, <1>4, <1>5 DEF Next, DeviceStep

\* A chunk takes a transfer on from where it is, or ends it.
LEMMA ChunkTransfer ==
    ASSUME IInv, NEW u \in Users, Chunk(u)
    PROVE  TransferInv' /\ TransferInOrder'
<1>1. Fails(u) \/ GoesOn(u) \/ Ends(u)
    BY ChunkEffect
<1>2. /\ sent[u] \in 0 .. Size - 1 /\ End(u) \in sent[u] + 1 .. Size
      /\ \A v \in Users : v # u => Extended(u)[v] = moved[v]
      /\ Rising(Extended(u)[u]) /\ UpTo(Extended(u)[u], End(u))
      /\ u \notin blind => Len(Extended(u)[u]) = End(u) /\ InOrder(Extended(u)[u])
    BY ChunkEffect, ChunkRegisters
<1>3. /\ sent \in [Users -> -1 .. Size] /\ res \in [Users -> {"none", "ok", "error"}]
      /\ moved \in [Users -> Seq(1 .. Size)] /\ blind \subseteq Users
    BY DEF IInv, TypeOK
<1>4. ASSUME NEW v \in Users
      PROVE  /\ sent[v] >= 0 => /\ sent[v] < Size /\ UpTo(moved[v], sent[v])
                                /\ v \notin blind => Len(moved[v]) = sent[v]
             /\ Rising(moved[v])
             /\ v \notin blind => InOrder(moved[v]) /\ (res[v] = "ok" => Len(moved[v]) = Size)
    BY Zenon DEF IInv, TransferInv, TransferInOrder, Rising, InOrder
<1>5. ASSUME NEW v \in Users
      PROVE  /\ sent'[v] >= 0 => /\ sent'[v] < Size /\ UpTo(moved'[v], sent'[v])
                                 /\ v \notin blind' => Len(moved'[v]) = sent'[v]
             /\ Rising(moved'[v])
             /\ v \notin blind' => InOrder(moved'[v]) /\ (res'[v] = "ok" => Len(moved'[v]) = Size)
    <2>1. CASE v # u
        <3>1. moved'[v] = moved[v] /\ sent'[v] = sent[v] /\ res'[v] = res[v]
              /\ (v \in blind' <=> v \in blind)
            BY <1>1, <1>2, <1>3, <2>1 DEF Fails, GoesOn, Ends, Counts
        <3> QED
            BY <1>4, <3>1, Zenon
    <2>2. CASE v = u
        <3>1. Rising(moved'[u])
            BY <1>1, <1>2, <1>4 DEF Fails, GoesOn, Ends, Counts
        <3>2. CASE Fails(u)
            <4>1. sent'[u] = -1 /\ res'[u] = "error" /\ blind' = blind
                BY <1>3, <3>2 DEF Fails
            <4>2. u \notin blind => InOrder(moved'[u])
                BY <1>2, <1>4, <3>2 DEF Fails
            <4> QED
                BY <2>2, <3>1, <4>1, <4>2
        <3>3. ASSUME Counts(u)
              PROVE  /\ UpTo(moved'[u], End(u))
                     /\ u \notin blind' => Len(moved'[u]) = End(u) /\ InOrder(moved'[u])
            <4>1. UpTo(moved[u], End(u))
                <5>1. ASSUME NEW i \in 1 .. Len(moved[u]) PROVE moved[u][i] <= End(u)
                    <6>1. moved[u][i] \in 1 .. Size /\ moved[u][i] <= sent[u]
                        BY <1>2, <1>3, <1>4, ElementOfSeq DEF UpTo
                    <6> QED
                        BY <1>2, <6>1
                <5> QED
                    BY <5>1 DEF UpTo
            <4>2. CASE moved' = Extended(u) /\ blind' = blind
                BY <1>2, <4>2
            <4>3. CASE moved' \in {moved, Extended(u)} /\ blind' = blind \cup {u}
                BY <1>2, <4>1, <4>3
            <4> QED
                BY <3>3, <4>2, <4>3 DEF Counts
        <3>4. CASE GoesOn(u)
            <4>1. Counts(u) /\ End(u) < Size /\ sent'[u] = End(u) /\ res'[u] = "none"
                BY <1>3, <3>4 DEF GoesOn
            <4> QED
                BY <2>2, <3>1, <3>3, <4>1
        <3>5. CASE Ends(u)
            <4>1. Counts(u) /\ sent'[u] = -1 /\ res'[u] = "ok" /\ End(u) = Size
                BY <1>2, <1>3, <3>5 DEF Ends
            <4> QED
                BY <2>2, <3>1, <3>3, <4>1
        <3> QED
            BY <1>1, <3>2, <3>4, <3>5
    <2> QED
        BY <2>1, <2>2
<1> QED
    BY <1>5, Zenon DEF TransferInv, TransferInOrder, Rising, InOrder

LEMMA TransferStep ==
    ASSUME IInv, [Next]_vars
    PROVE  TransferInv' /\ TransferInOrder'
<1>1. CASE UNCHANGED users
    BY <1>1 DEF IInv, TransferInv, TransferInOrder, users
<1>2. ASSUME NEW u \in Users, StartTransfer(u) PROVE TransferInv' /\ TransferInOrder'
    <2>1. /\ sent'[u] = 0 /\ res'[u] = "none" /\ moved'[u] = <<>> /\ Len(<<>>) = 0
          /\ \A v \in Users \ {u} : /\ sent'[v] = sent[v] /\ res'[v] = res[v] /\ moved'[v] = moved[v]
                                    /\ v \in blind' <=> v \in blind
        BY <1>2 DEF IInv, TypeOK, StartTransfer
    <2> QED
        BY <2>1 DEF IInv, TransferInv, TransferInOrder, UpTo
<1>3. ASSUME NEW u \in Users, Chunk(u) PROVE TransferInv' /\ TransferInOrder'
    BY <1>3, ChunkTransfer
<1>4. CASE Run \/ Start \/ Stop \/ Cancel \/ DeviceStep
    <2>1. UNCHANGED users
        BY <1>4 DEF Run, Round, TakeLock, ReadMode, EnableIrq, Pbms, Probe, Load, Pbmc, Check, Setup,
                    Publish, Poll, PollWrite, Start, Stop, Cancel, DeviceStep, Disturb, Reset, Booted
    <2> QED
        BY <1>1, <2>1
<1>5. CASE UNCHANGED vars
    BY <1>1, <1>5 DEF vars
<1> QED
    BY <1>2, <1>3, <1>4, <1>5 DEF Next, DeviceStep

-----------------------------------------------------------------------------
LEMMA InitInv == Init => IInv
<1> SUFFICES ASSUME Init PROVE IInv
    OBVIOUS
<1>1. TypeOK
    <2>1. got \in Seq(-1 .. Blocks) /\ <<>> \in Seq(1 .. Size) /\ -1 \in -1 .. Size
        BY NothingGot, EmptySeq DEF Init
    <2>2. /\ sent \in [Users -> -1 .. Size] /\ res \in [Users -> {"none", "ok", "error"}]
          /\ moved \in [Users -> Seq(1 .. Size)]
        BY <2>1, Zenon DEF Init
    <2>3. n \in 0 .. Blocks /\ charger \in Nat /\ {bad, irq, open, monitor, seen} \subseteq BOOLEAN
        <3>1. n \in 0 .. Blocks /\ charger \in Nat
            BY DEF Init, Null
        <3>2. bad \in BOOLEAN /\ irq \in BOOLEAN /\ ~open /\ ~monitor /\ ~seen
            BY DEF Init
        <3>3. open \in BOOLEAN /\ monitor \in BOOLEAN /\ seen \in BOOLEAN
            BY DEF Init
        <3> QED
            BY <3>1, <3>2, <3>3, Zenon
    <2> QED
        BY <2>1, <2>2, <2>3 DEF Init, TypeOK, Labels
<1>2. LockInv /\ SessionInv /\ PatchClean /\ SeenInv /\ TransferInv
    BY DEF Init, LockInv, InRound, SessionInv, PatchClean, SeenInv, TransferInv
<1>3. TransferInOrder
    <2>1. ASSUME NEW u \in Users
          PROVE  (\A i \in 1 .. Len(moved[u]) : moved[u][i] = i) /\ res[u] # "ok"
        <3>1. Len(moved[u]) = 0 /\ res[u] = "none"
            BY NothingGot DEF Init
        <3> QED
            BY <3>1
    <2> QED
        BY <2>1 DEF TransferInOrder
<1> QED
    BY <1>1, <1>2, <1>3 DEF IInv

LEMMA StepInv == IInv /\ [Next]_vars => IInv'
<1> SUFFICES ASSUME IInv, [Next]_vars PROVE IInv'
    OBVIOUS
<1>1. TypeOK'
    <2>1. CASE WorkerStep
        BY <2>1, WorkerType DEF IInv
    <2>2. CASE DeviceStep
        BY <2>2, DeviceType DEF IInv
    <2>3. ASSUME NEW u \in Users, StartTransfer(u) PROVE TypeOK'
        BY <2>3, StartTransferType DEF IInv
    <2>4. ASSUME NEW u \in Users, Chunk(u) PROVE TypeOK'
        BY <2>4, ChunkType
    <2>5. CASE UNCHANGED vars
        BY <2>5 DEF IInv, TypeOK, vars, worker, controller, users
    <2> QED
        BY <2>1, <2>2, <2>3, <2>4, <2>5 DEF Next, WorkerStep, DeviceStep
<1> QED
    BY <1>1, LockStep, SessionStep, SeenStep, TransferStep DEF IInv

LEMMA Invariance == Spec => []IInv
    BY InitInv, StepInv, PTL DEF Spec

\* Every variable keeps its type; in particular what the controller gets are blocks
\* of the patch, and no transfer counts more bytes than it has.
THEOREM TypeCorrect == Spec => []TypeOK
<1>1. IInv => TypeOK
    BY DEF IInv
<1> QED
    BY <1>1, Invariance, PTL

\* Between PBMs and PBMc, the controller gets the blocks of this round's patch and
\* nothing else, in order, for any number of blocks and of users: initialize() holds
\* lock_ over the whole round, and counts from 0 in each.
THEOREM PatchArrivesWhole == Spec => []PatchClean
<1>1. IInv => PatchClean
    BY DEF IInv
<1> QED
    BY <1>1, Invariance, PTL

\* i2c_read() and i2c_write() touch the charger's registers in order and none twice, and,
\* unless the answer of one of their commands could not be read, all of them when they
\* return 0, for any size of transfer and of chunk.
THEOREM TransfersKeepOrder == Spec => []TransferInOrder
<1>1. IInv => TransferInOrder
    BY DEF IInv
<1> QED
    BY <1>1, Invariance, PTL

\* initialize() constructs the charger at most once, and only after it has found the
\* controller in APP: a worker that is told to stop goes on with its retries.
THEOREM ChargerIsSetOnce == Spec => ChargerSetOnce
<1>1. IInv /\ [Next]_vars => [charger' # charger => charger = Null /\ seen]_vars
    BY SeenStep
<1> QED
    BY <1>1, Invariance, PTL DEF Spec, ChargerSetOnce

-----------------------------------------------------------------------------
(* The settings of the charger *)

All == Fields \cup Commands

\* A field lies in its byte, or is the lower part of its two bytes.
Shape(f) ==
    /\ f.reg \in Addresses /\ f.lo \in 0 .. 7 /\ f.width \in 1 .. 11
    /\ \/ f.bytes = 1 /\ f.lo + f.width <= 8
       \/ f.bytes = 2 /\ f.lo = 0 /\ f.reg + 1 \in Addresses
    /\ f.name = "AdcState" => f.bytes = 1 /\ f.lo = 7 /\ f.width = 1
    /\ f.bytes = 1 /\ f.name \in Blind /\ f.name # "AdcState" => f.lo = 0

\* Two fields share no bit, and a register that is written blindly has one field only.
Apart(f, g) ==
    /\ f.reg = g.reg =>
         /\ f.bytes = 1 /\ g.bytes = 1
         /\ f.name \notin Blind /\ g.name \notin Blind
         /\ f.lo + f.width <= g.lo \/ g.lo + g.width <= f.lo
    /\ f.bytes = 2 => g.reg # f.reg + 1
    /\ g.bytes = 2 => f.reg # g.reg + 1

\* The second byte of a wide field is no register of another field.
Seconds == {2, 4, 7, 12}
Placed(f) == f.reg \notin Seconds /\ (f.bytes = 2 => f.reg + 1 \in Seconds)

\* Fields in registers of their own.
Group(S, first, last) ==
    /\ \A f \in S : Shape(f) /\ Placed(f) /\ f.reg \in first .. last
    /\ \A f, g \in S : f # g => Apart(f, g)

\* Fields of one register.
Ordered(S, reg) ==
    /\ reg \in Addresses \ Seconds
    /\ \A f \in S : /\ f.reg = reg /\ f.bytes = 1 /\ f.name \notin Blind
                    /\ f.lo \in 0 .. 7 /\ f.width \in 1 .. 8 /\ f.lo + f.width <= 8
    /\ \A f, g \in S : f # g => f.lo + f.width <= g.lo \/ g.lo + g.width <= f.lo

LEMMA OrderedGroup == ASSUME NEW S, NEW reg, Ordered(S, reg) PROVE Group(S, reg, reg)
<1>1. reg \in Int /\ reg \in Addresses
    BY DEF Ordered, Addresses
<1>2. ASSUME NEW f \in S PROVE Shape(f) /\ Placed(f) /\ f.reg \in reg .. reg
    BY <1>1 DEF Ordered, Shape, Placed, Blind
<1>3. ASSUME NEW f \in S, NEW g \in S, f # g PROVE Apart(f, g)
    BY <1>1, <1>3 DEF Ordered, Apart
<1> QED
    BY <1>2, <1>3 DEF Group

LEMMA Layout ==
    /\ \A f \in All : Shape(f) /\ Placed(f)
    /\ \A f, g \in All : f # g => Apart(f, g)
<1> USE DEF Field, Bit
<1> DEFINE Adc == {Bit("AdcState", 46, 7)}
           Low == LimitFields \ Adc
           Control1All == Control1Fields \cup {ResetWDTBit}
<1>0. Group(Low, 0, 7)
    BY DEF LimitFields, Group, Shape, Apart, Blind, Wide, Addresses, Placed, Seconds
<1>1. Group({f \in ChargeFields : f.reg = 8}, 8, 8)
    <2>1. Ordered({f \in ChargeFields : f.reg = 8}, 8)
        BY DEF ChargeFields, Ordered, Blind, Addresses, Seconds
    <2> QED
        BY <2>1, OrderedGroup
<1>2. Group({f \in ChargeFields : f.reg = 9} \cup {ResetBit}, 9, 9)
    <2>1. Ordered({f \in ChargeFields : f.reg = 9} \cup {ResetBit}, 9)
        BY DEF ChargeFields, ResetBit, Ordered, Blind, Addresses, Seconds
    <2> QED
        BY <2>1, OrderedGroup
<1>3. Group(RechargeFields, 10, 10)
    <2>1. Ordered(RechargeFields, 10)
        BY DEF RechargeFields, Ordered, Blind, Addresses, Seconds
    <2> QED
        BY <2>1, OrderedGroup
<1>4. Group(OTGFields, 11, 13)
    BY DEF OTGFields, Group, Shape, Apart, Blind, Wide, Addresses, Placed, Seconds
<1>5. Group(TimerFields, 14, 14)
    <2>1. Ordered(TimerFields, 14)
        BY DEF TimerFields, Ordered, Blind, Addresses, Seconds
    <2> QED
        BY <2>1, OrderedGroup
<1>6. Group(Control0Fields, 15, 15)
    <2>1. Ordered(Control0Fields, 15)
        BY DEF Control0Fields, Ordered, Blind, Addresses, Seconds
    <2> QED
        BY <2>1, OrderedGroup
<1>7. Group(Control1All, 16, 16)
    <2>1. Ordered(Control1All, 16)
        BY DEF Control1Fields, ResetWDTBit, Ordered, Blind, Addresses, Seconds
    <2> QED
        BY <2>1, OrderedGroup
<1>8. Group(Control2Fields, 17, 17)
    <2>1. Ordered(Control2Fields, 17)
        BY DEF Control2Fields, Ordered, Blind, Addresses, Seconds
    <2> QED
        BY <2>1, OrderedGroup
<1>9. Group(Control3Fields, 18, 18)
    <2>1. Ordered(Control3Fields, 18)
        BY DEF Control3Fields, Ordered, Blind, Addresses, Seconds
    <2> QED
        BY <2>1, OrderedGroup
<1>10. Group(Control4Fields, 19, 19)
    <2>1. Ordered(Control4Fields, 19)
        BY DEF Control4Fields, Ordered, Blind, Addresses, Seconds
    <2> QED
        BY <2>1, OrderedGroup
<1>11. Group(Control5Fields, 20, 20)
    <2>1. Ordered(Control5Fields, 20)
        BY DEF Control5Fields, Ordered, Blind, Addresses, Seconds
    <2> QED
        BY <2>1, OrderedGroup
<1>12. Group(MPPTFields, 21, 21)
    <2>1. Ordered(MPPTFields, 21)
        BY DEF MPPTFields, Ordered, Blind, Addresses, Seconds
    <2> QED
        BY <2>1, OrderedGroup
<1>13. Group(TemperatureFields, 22, 22)
    <2>1. Ordered(TemperatureFields, 22)
        BY DEF TemperatureFields, Ordered, Blind, Addresses, Seconds
    <2> QED
        BY <2>1, OrderedGroup
<1>14. Group(Adc, 46, 46)
    BY DEF Group, Shape, Addresses, Placed, Seconds, Blind
<1> HIDE DEF Low, Control1All, Adc
<1>15. ASSUME NEW f \in All
       PROVE  \/ f \in Low \/ f \in {h \in ChargeFields : h.reg = 8}
              \/ f \in {h \in ChargeFields : h.reg = 9} \cup {ResetBit}
              \/ f \in RechargeFields \/ f \in OTGFields \/ f \in TimerFields
              \/ f \in Control0Fields \/ f \in Control1All \/ f \in Control2Fields
              \/ f \in Control3Fields \/ f \in Control4Fields \/ f \in Control5Fields
              \/ f \in MPPTFields \/ f \in TemperatureFields \/ f \in Adc
    <2>1. f \in ChargeFields => f.reg \in {8, 9}
        BY DEF ChargeFields
    <2> QED
        BY <2>1 DEF All, Fields, Commands, Low, Control1All, Adc
<1>16. ASSUME NEW f \in All PROVE Shape(f) /\ Placed(f)
    BY <1>0, <1>1, <1>2, <1>3, <1>4, <1>5, <1>6, <1>7, <1>8, <1>9, <1>10, <1>11, <1>12,
       <1>13, <1>14, <1>15 DEF Group
<1>17. ASSUME NEW f \in All, NEW g \in All, f # g PROVE Apart(f, g)
    <2>1. CASE f.reg = g.reg
        BY <2>1, <1>0, <1>1, <1>2, <1>3, <1>4, <1>5, <1>6, <1>7, <1>8, <1>9, <1>10, <1>11,
           <1>12, <1>13, <1>14, <1>15, <1>17 DEF Group
    <2>2. CASE f.reg # g.reg
        BY <2>2, <1>16 DEF Placed, Apart
    <2> QED
        BY <2>1, <2>2
<1> QED
    BY <1>16, <1>17

\* The fields that the code treats by name.
LEMMA NamedFields ==
    ASSUME NEW f \in All
    PROVE  /\ f.name \in {"AutoOVPBattDischarge", "ForceBattDischarge", "ShipFET10sDelay"}
                => f.bytes = 1 /\ f.width = 1
           /\ f.name = "VINDPM_VOCpercent" => f.bytes = 1 /\ f.width = 3
           /\ f.name = "PrechargeLimitA" => f.lo = 0 /\ f.width = 6
    BY DEF All, Commands, ResetBit, ResetWDTBit, Bit, Field, Wide, Fields, LimitFields,
           ChargeFields, RechargeFields, OTGFields, TimerFields, Control0Fields, Control1Fields,
           Control2Fields, Control3Fields, Control4Fields, Control5Fields, MPPTFields,
           TemperatureFields

-----------------------------------------------------------------------------
(* Numbers as sets of bits *)

Table == <<1, 2, 4, 8, 16, 32, 64, 128, 256, 512, 1024, 2048, 4096, 8192, 16384, 32768>>

LEMMA Powers == ASSUME NEW i \in 0 .. 15 PROVE TwoTo(i) = Table[i + 1]
<1> USE DEF Table, TwoTo
<1>1. CASE i = 0
    BY <1>1
<1>2. CASE i = 1
    BY <1>2
<1>3. CASE i = 2
    BY <1>3
<1>4. CASE i = 3
    BY <1>4
<1>5. CASE i = 4
    BY <1>5
<1>6. CASE i = 5
    BY <1>6
<1>7. CASE i = 6
    BY <1>7
<1>8. CASE i = 7
    BY <1>8
<1>9. CASE i = 8
    BY <1>9
<1>10. CASE i = 9
    BY <1>10
<1>11. CASE i = 10
    BY <1>11
<1>12. CASE i = 11
    BY <1>12
<1>13. CASE i = 12
    BY <1>13
<1>14. CASE i = 13
    BY <1>14
<1>15. CASE i = 14
    BY <1>15
<1>16. CASE i = 15
    BY <1>16
<1> QED
    BY <1>1, <1>2, <1>3, <1>4, <1>5, <1>6, <1>7, <1>8, <1>9, <1>10, <1>11, <1>12, <1>13, <1>14, <1>15, <1>16

LEMMA PowersGrow ==
    ASSUME NEW w \in 1 .. 11, NEW i \in w .. 15
    PROVE  TwoTo(w) \in Nat /\ TwoTo(i) \in Nat /\ TwoTo(w) <= TwoTo(i) /\ TwoTo(w) <= 2048
<1>1. TwoTo(w) = Table[w + 1] /\ TwoTo(i) = Table[i + 1]
    BY Powers
<1>2. Table[w + 1] \in Nat /\ Table[i + 1] \in Nat /\ Table[w + 1] <= Table[i + 1]
      /\ Table[w + 1] <= 2048
    BY DEF Table
<1> QED
    BY <1>1, <1>2

\* A number that a field holds has no bits above it, and is the sum of its bits.
LEMMA OnesInField ==
    ASSUME NEW w \in 1 .. 11, NEW num \in 0 .. TwoTo(w) - 1
    PROVE  OnesOf(num) \subseteq 0 .. w - 1 /\ num \in 0 .. 2047
<1>1. ASSUME NEW i \in w .. 15 PROVE (num \div TwoTo(i)) % 2 # 1
    <2> DEFINE d == TwoTo(i)
    <2>1. num \in Nat /\ d \in Nat /\ num < d
        BY PowersGrow
    <2>2. num \div d = 0
        <3> HIDE DEF d
        <3> QED
            BY <2>1
    <2> QED
        BY <2>2
<1>2. num \in 0 .. 2047
    <2>1. TwoTo(w) \in Nat /\ TwoTo(w) <= 2048
        BY PowersGrow
    <2> QED
        BY <2>1
<1> QED
    BY <1>1, <1>2 DEF OnesOf

LEMMA Halves == ASSUME NEW q \in Nat PROVE q = 2 * (q \div 2) + (q % 2) /\ q \div 2 \in Nat
    OBVIOUS

LEMMA SumOfOnes == ASSUME NEW num \in 0 .. 2047 PROVE Number(OnesOf(num)) = num
<1> DEFINE b(d) == (num \div d) % 2
<1>1. num = b(1) + 2 * b(2) + 4 * b(4) + 8 * b(8) + 16 * b(16) + 32 * b(32) + 64 * b(64)
          + 128 * b(128) + 256 * b(256) + 512 * b(512) + 1024 * b(1024)
    <2>1. /\ num \div 2 = (num \div 1) \div 2 /\ num \div 4 = (num \div 2) \div 2
          /\ num \div 8 = (num \div 4) \div 2 /\ num \div 16 = (num \div 8) \div 2
          /\ num \div 32 = (num \div 16) \div 2 /\ num \div 64 = (num \div 32) \div 2
          /\ num \div 128 = (num \div 64) \div 2 /\ num \div 256 = (num \div 128) \div 2
          /\ num \div 512 = (num \div 256) \div 2 /\ num \div 1024 = (num \div 512) \div 2
        OBVIOUS
    <2>2. num \div 1 = num /\ num \div 1024 \in 0 .. 1
        OBVIOUS
    <2>3. \A d \in {1, 2, 4, 8, 16, 32, 64, 128, 256, 512, 1024} : num \div d \in Nat
        OBVIOUS
    <2>4. b(1024) = num \div 1024
        BY <2>2
    <2> QED
        BY <2>1, <2>2, <2>3, <2>4, Halves
<1>2. ASSUME NEW i \in 0 .. 10 PROVE Weight(i, OnesOf(num)) = TwoTo(i) * b(TwoTo(i))
    <2>1. TwoTo(i) \in Nat /\ TwoTo(i) # 0
        BY Powers DEF Table
    <2> DEFINE d == TwoTo(i)
    <2>2. b(d) \in {0, 1}
        <3>1. num \div d \in Nat
            <4> HIDE DEF d
            <4> QED
                BY <2>1 DEF d
        <3> QED
            BY <3>1
    <2>3. i \in OnesOf(num) <=> b(d) = 1
        BY DEF OnesOf
    <2> HIDE DEF b
    <2> QED
        BY <2>1, <2>2, <2>3 DEF Weight
<1> HIDE DEF b
<1>3. /\ TwoTo(0) = 1 /\ TwoTo(1) = 2 /\ TwoTo(2) = 4 /\ TwoTo(3) = 8 /\ TwoTo(4) = 16
      /\ TwoTo(5) = 32 /\ TwoTo(6) = 64 /\ TwoTo(7) = 128 /\ TwoTo(8) = 256
      /\ TwoTo(9) = 512 /\ TwoTo(10) = 1024
    BY DEF TwoTo
<1>4. \A d \in {1, 2, 4, 8, 16, 32, 64, 128, 256, 512, 1024} : b(d) \in Int
    BY DEF b
<1>5. /\ Weight(0, OnesOf(num)) = b(1) /\ Weight(1, OnesOf(num)) = 2 * b(2)
      /\ Weight(2, OnesOf(num)) = 4 * b(4) /\ Weight(3, OnesOf(num)) = 8 * b(8)
      /\ Weight(4, OnesOf(num)) = 16 * b(16) /\ Weight(5, OnesOf(num)) = 32 * b(32)
      /\ Weight(6, OnesOf(num)) = 64 * b(64) /\ Weight(7, OnesOf(num)) = 128 * b(128)
      /\ Weight(8, OnesOf(num)) = 256 * b(256) /\ Weight(9, OnesOf(num)) = 512 * b(512)
      /\ Weight(10, OnesOf(num)) = 1024 * b(1024)
    BY <1>2, <1>3, <1>4
<1> QED
    BY <1>1, <1>4, <1>5 DEF Number

-----------------------------------------------------------------------------
(* Quantities *)

Units == {<<0, 1>>, <<2500, 250>>, <<0, 100>>, <<50, 50>>, <<2800, 10>>, <<0, 40>>, <<0, 10>>}

LEMMA UnitCases == ASSUME NEW name PROVE <<Unit(name).base, Unit(name).step>> \in Units
<1>1. CASE name \notin QuantityNames
    BY <1>1 DEF Unit, Units
<1>2. CASE name \in QuantityNames
    <2>1. Unit(name) = Quantities[name]
        BY <1>2 DEF Unit
    <2> QED
        BY <1>2, <2>1 DEF Quantities, QuantityNames, Units
<1> QED
    BY <1>1, <1>2

\* A value below the base wraps, and fits into no field.
LEMMA WrappedIsLarge ==
    ASSUME NEW v \in Nat, NEW base, NEW step, <<base, step>> \in Units, v < base
    PROVE  Quotient(v, base, step) > 2047
<1> USE DEF Quotient, Max31
<1>1. CASE base = 2500 /\ step = 250
    BY <1>1
<1>2. CASE base = 50 /\ step = 50
    BY <1>2
<1>3. CASE base = 2800 /\ step = 10
    BY <1>3
<1> QED
    BY <1>1, <1>2, <1>3 DEF Units

\* A setting reads as its value, down to a step, when its number fits.
LEMMA ReadsAsStored ==
    ASSUME NEW name, NEW v \in Nat, RawOf(name, v) \in 0 .. 2047
    PROVE  Unit(name).base + Unit(name).step * RawOf(name, v) = Stored(name, v) /\ Stored(name, v) \in Int
<1> DEFINE base == Unit(name).base
           step == Unit(name).step
<1>1. <<base, step>> \in Units
    BY UnitCases
<1>2. base \in Nat /\ step \in Nat /\ step > 0
    BY <1>1 DEF Units
<1>3. v >= base
    <2>1. Quotient(v, base, step) \in 0 .. 2047
        BY DEF RawOf
    <2> HIDE DEF base, step
    <2>2. v < base => Quotient(v, base, step) > 2047
        BY <1>1, WrappedIsLarge
    <2> QED
        BY <1>2, <2>1, <2>2
<1>4. RawOf(name, v) = (v - base) \div step /\ Stored(name, v) = v - ((v - base) % step)
    BY <1>3 DEF RawOf, Stored, Quotient
<1> HIDE DEF base, step
<1>5. \A x \in Nat : x = step * (x \div step) + (x % step) /\ x % step \in Nat
    BY <1>2
<1>6. v - base \in Nat
    BY <1>2, <1>3
<1>7. v - base = step * ((v - base) \div step) + ((v - base) % step)
    BY <1>5, <1>6
<1>8. base + step * ((v - base) \div step) = v - ((v - base) % step)
      /\ v - ((v - base) % step) \in Int
    <2> DEFINE q == step * ((v - base) \div step)
               r == (v - base) % step
    <2>1. r \in Nat /\ v - base = q + r
        BY <1>5, <1>6, <1>7
    <2>2. q \in Int
        BY <1>2, <1>6
    <2> HIDE DEF q, r
    <2>3. base + q = v - r /\ v - r \in Int
        BY <1>2, <2>1, <2>2
    <2> QED
        BY <2>3 DEF q, r
<1>9. base + step * RawOf(name, v) = Stored(name, v) /\ Stored(name, v) \in Int
    BY <1>4, <1>8
<1> QED
    BY <1>9 DEF base, step

\* What callers ask for is a number, and a value that fits is one that the getter's
\* units can tell.
LEMMA AskedNat == ASSUME NEW f \in All, NEW v \in Inputs(f) PROVE v \in Nat
<1>1. f.width \in 1 .. 11 /\ TwoTo(f.width) \in Nat
    BY Layout, PowersGrow DEF Shape
<1>2. CASE f \in Commands
    <2>1. f.name \notin QuantityNames
        BY <1>2 DEF Commands, ResetBit, ResetWDTBit, Bit, Field, QuantityNames
    <2>2. Inputs(f) = {1}
        BY <1>2, <2>1 DEF Inputs
    <2> QED
        BY <2>2
<1>3. CASE f \notin Commands /\ f.name \in QuantityNames
    BY <1>3, AmountsAssumption DEF Inputs
<1>4. CASE f \notin Commands /\ f.name \notin QuantityNames
    BY <1>1, <1>4 DEF Inputs
<1> QED
    BY <1>2, <1>3, <1>4

\* The bits that go into a field: its number's, all within the field.
LEMMA AskedOnes ==
    ASSUME NEW f \in All, NEW v, Fits(f, v)
    PROVE  /\ RawOf(f.name, v) \in 0 .. 2047
           /\ OnesOf(RawOf(f.name, v)) \subseteq 0 .. f.width - 1
<1>1. f.width \in 1 .. 11
    BY Layout DEF Shape
<1>2. RawOf(f.name, v) \in 0 .. TwoTo(f.width) - 1
    BY DEF Fits
<1>3. \A w \in 1 .. 11 : \A num \in 0 .. TwoTo(w) - 1 :
         num \in 0 .. 2047 /\ OnesOf(num) \subseteq 0 .. w - 1
    BY OnesInField
<1> DEFINE w == f.width
           num == RawOf(f.name, v)
<1>4. w \in 1 .. 11 /\ num \in 0 .. TwoTo(w) - 1
    BY <1>1, <1>2
<1> HIDE DEF w, num
<1>5. num \in 0 .. 2047 /\ OnesOf(num) \subseteq 0 .. w - 1
    BY <1>3, <1>4
<1> QED
    BY <1>5 DEF w, num

-----------------------------------------------------------------------------
(* Where a setter writes *)

\* A misdirected setter writes a field of one byte, in a register of such fields that
\* is read before it is written.
LEMMA Targets ==
    ASSUME NEW f \in All
    PROVE  /\ Target(f).reg \in Addresses \ Seconds
           /\ Target(f).name = f.name /\ Target(f).bytes = f.bytes
           /\ Target(f).width = f.width
           /\ Target(f).lo \in 0 .. 7
           /\ f.bytes = 1 \/ (f.bytes = 2 /\ Target(f) = f /\ f.reg + 1 \in Addresses \cap Seconds)
           /\ Misdirected(f) => /\ f.bytes = 1 /\ f.name \notin Blind
                                /\ Target(f).reg \notin {r - 1 : r \in Seconds}
<1>1. Shape(f) /\ Placed(f)
    BY Layout
<1>2. CASE Target(f) = f
    BY <1>1, <1>2 DEF Shape, Placed, Misdirected
<1>3. CASE Target(f) # f
    <2>1. \/ f.name = "AutoOVPBattDischarge" /\ Target(f) = Bit(f.name, 14, 7)
          \/ f.name = "ForceBattDischarge" /\ Target(f) = Bit(f.name, 14, 6)
          \/ f.name = "ShipFET10sDelay" /\ Target(f) = Bit(f.name, 17, 7)
          \/ f.name = "VINDPM_VOCpercent" /\ Target(f) = Field(f.name, 20, 7, 5)
        BY <1>3 DEF Target
    <2>2. /\ f.name \in {"AutoOVPBattDischarge", "ForceBattDischarge", "ShipFET10sDelay"}
               => f.bytes = 1 /\ f.width = 1
          /\ f.name = "VINDPM_VOCpercent" => f.bytes = 1 /\ f.width = 3
        BY NamedFields
    <2>3. f.name \notin Blind
        BY <2>1 DEF Blind
    <2> QED
        BY <2>1, <2>2, <2>3 DEF Bit, Field, Addresses, Seconds
<1> QED
    BY <1>2, <1>3

\* What is written is one byte, or the two of a wide field.
LEMMA BytesWritten ==
    ASSUME NEW f \in All, NEW v, NEW byte \in Byte
    PROVE  \/ \E one \in Byte : NewBytes(Target(f), byte, v) = <<one>>
           \/ /\ f.bytes = 2
              /\ \E one, two \in Byte : NewBytes(Target(f), byte, v) = <<one, two>>
<1> DEFINE to == Target(f)
           ones == OnesOf(RawOf(to.name, v))
<1>1. to.name = f.name /\ to.bytes = f.bytes /\ f.bytes \in {1, 2}
    BY Targets
<1>2. CASE to.name = "AdcState"
    <2>1. f.bytes = 1
        <3>1. f.name = "AdcState" /\ Shape(f)
            BY <1>1, <1>2, Layout
        <3> QED
            BY <3>1 DEF Shape
    <2> HIDE DEF to
    <2>2. NewBytes(to, byte, v) = <<IF v = 1 THEN {7, 3} ELSE {}>>
        BY <1>1, <1>2, <2>1 DEF NewBytes
    <2>3. (IF v = 1 THEN {7, 3} ELSE {}) \in Byte
        BY DEF Byte
    <2> QED
        BY <2>2, <2>3 DEF to
<1>3. CASE to.name # "AdcState" /\ to.bytes = 2
    <2>1. NewBytes(to, byte, v) = <<{i \in 0 .. 7 : i + 8 \in ones}, ones \cap 0 .. 7>>
        BY <1>3 DEF NewBytes
    <2> QED
        BY <1>1, <1>3, <2>1 DEF Byte
<1>4. CASE to.name # "AdcState" /\ to.bytes = 1 /\ to.name \in Blind
    <2>1. NewBytes(to, byte, v) = <<ones \cap 0 .. 7>>
        BY <1>4 DEF NewBytes
    <2> QED
        BY <2>1 DEF Byte
<1>5. CASE to.name \notin Blind /\ to.bytes = 1
    <2>1. to.name # "AdcState"
        BY <1>5 DEF Blind
    <2>2. NewBytes(to, byte, v) = <<Inserted(to, byte, RawOf(to.name, v))>>
        BY <1>5, <2>1 DEF NewBytes
    <2>3. Inserted(to, byte, RawOf(to.name, v)) \in Byte
        BY DEF Inserted, Clobbered, Byte
    <2> QED
        BY <2>2, <2>3
<1> QED
    BY <1>1, <1>2, <1>3, <1>4, <1>5

\* The rest of the registers stay as they are.
LEMMA RestKept ==
    ASSUME regs \in [Addresses -> Byte], NEW at \in Addresses, NEW bytes,
           NEW one \in Byte, NEW two \in Byte,
           bytes = <<one>> \/ (bytes = <<one, two>> /\ at + 1 \in Addresses)
    PROVE  /\ Replaced(at, bytes) \in [Addresses -> Byte]
           /\ Replaced(at, bytes)[at] = one
           /\ bytes = <<one, two>> => Replaced(at, bytes)[at + 1] = two
           /\ \A a \in Addresses :
                 a # at /\ (bytes = <<one, two>> => a # at + 1)
                    => Replaced(at, bytes)[a] = regs[a]
<1> DEFINE new == Replaced(at, bytes)
<1>1. at \in Int /\ Addresses \subseteq Int
    BY DEF Addresses
<1>2. new = [a \in Addresses |->
               IF a \in at .. at + Len(bytes) - 1 THEN bytes[a - at + 1] ELSE regs[a]]
    BY DEF Replaced
<1> HIDE DEF new
<1>3. CASE bytes = <<one>>
    <2>1. Len(bytes) = 1 /\ bytes[1] = one /\ bytes # <<one, two>>
        BY <1>3
    <2>2. \A a \in Int : a \in at .. at + 1 - 1 <=> a = at
        BY <1>1
    <2>3. at - at + 1 = 1
        BY <1>1
    <2>4. new = [a \in Addresses |-> IF a = at THEN one ELSE regs[a]]
        BY <1>1, <1>2, <2>1, <2>2, <2>3
    <2> QED
        BY <2>1, <2>4 DEF new
<1>4. CASE bytes = <<one, two>> /\ at + 1 \in Addresses
    <2>1. Len(bytes) = 2 /\ bytes[1] = one /\ bytes[2] = two
        BY <1>4
    <2>2. \A a \in Int : a \in at .. at + 2 - 1 <=> (a = at \/ a = at + 1)
        BY <1>1
    <2>3. at - at + 1 = 1 /\ at + 1 - at + 1 = 2 /\ at + 1 # at
        BY <1>1
    <2>4. new = [a \in Addresses |-> IF a = at THEN one ELSE IF a = at + 1 THEN two ELSE regs[a]]
        BY <1>1, <1>2, <2>1, <2>2, <2>3
    <2> QED
        BY <1>4, <2>3, <2>4 DEF new
<1> QED
    BY <1>3, <1>4

\* A setter's write changes no byte but those of its target.
LEMMA WriteType ==
    ASSUME regs \in [Addresses -> Byte], NEW f \in All, NEW v, NEW byte \in Byte
    PROVE  /\ Written(f, v, byte) \in [Addresses -> Byte]
           /\ \A a \in Addresses : a # Target(f).reg /\ (f.bytes = 2 => a # Target(f).reg + 1)
                 => Written(f, v, byte)[a] = regs[a]
<1> DEFINE at == Target(f).reg
           bytes == NewBytes(Target(f), byte, v)
<1>1. at \in Addresses /\ (f.bytes = 2 => at + 1 \in Addresses)
    BY Targets
<1>2. \/ \E one \in Byte : bytes = <<one>>
      \/ f.bytes = 2 /\ \E one, two \in Byte : bytes = <<one, two>>
    BY BytesWritten
<1>3. Written(f, v, byte) = Replaced(at, bytes)
    BY DEF Written
<1> HIDE DEF at, bytes
<1>4. CASE \E one \in Byte : bytes = <<one>>
    <2>1. PICK one \in Byte : bytes = <<one>>
        BY <1>4
    <2>2. bytes # <<one, one>>
        BY <2>1
    <2> QED
        BY <1>1, <1>3, <2>1, <2>2, RestKept DEF at
<1>5. CASE f.bytes = 2 /\ \E one, two \in Byte : bytes = <<one, two>>
    <2>1. PICK one \in Byte, two \in Byte : bytes = <<one, two>>
        BY <1>5
    <2> QED
        BY <1>1, <1>3, <1>5, <2>1, RestKept DEF at
<1> QED
    BY <1>2, <1>4, <1>5

-----------------------------------------------------------------------------
(* What a write does *)

\* The bits of a field depend on its own registers only.
LEMMA BitsOfOthers ==
    ASSUME NEW g, NEW r, NEW s, s[g.reg] = r[g.reg], g.bytes = 2 => s[g.reg + 1] = r[g.reg + 1]
    PROVE  FieldBits(s, g) = FieldBits(r, g)
    BY DEF FieldBits, Word

\* Of a byte they are those under its mask.
LEMMA BitsOfByte ==
    ASSUME NEW g \in All, g.bytes = 1, NEW r, NEW s,
           \A i \in Mask(g) : i \in s[g.reg] <=> i \in r[g.reg]
    PROVE  FieldBits(s, g) = FieldBits(r, g)
<1>1. g.lo \in Nat /\ g.width \in Nat
    BY Layout DEF Shape
<1>2. ASSUME NEW i \in 0 .. g.width - 1 PROVE i + g.lo \in Mask(g)
    BY <1>1 DEF Mask
<1> QED
    BY <1>2 DEF FieldBits, Word

\* A setting that a call does not spoil reads as before.
LEMMA OthersKept ==
    ASSUME regs \in [Addresses -> Byte], NEW f \in All, NEW v, NEW byte \in Byte,
           NEW g \in Fields, g # f, g \notin Spoils(f, v, byte)
    PROVE  FieldBits(Written(f, v, byte), g) = FieldBits(regs, g)
<1> DEFINE to == Target(f)
           w == Written(f, v, byte)
<1>1. g \in All /\ Shape(g) /\ Placed(g) /\ Apart(f, g)
    BY Layout DEF All
<1>2. /\ w \in [Addresses -> Byte]
      /\ \A a \in Addresses : a # to.reg /\ (f.bytes = 2 => a # to.reg + 1) => w[a] = regs[a]
    BY WriteType
<1>3. to.reg \in Addresses \ Seconds /\ (f.bytes = 2 => to.reg + 1 \in Seconds)
    BY Targets
<1>4. CASE g.reg # to.reg
    <2>1. g.reg \in Addresses \ Seconds
          /\ (g.bytes = 2 => g.reg + 1 \in Addresses /\ g.reg + 1 \in Seconds)
        BY <1>1 DEF Shape, Placed
    <2>2. f.bytes = 2 => g.reg # to.reg + 1
        BY <1>3, <2>1
    <2>3. g.bytes = 2 => g.reg + 1 # to.reg
        BY <1>3, <2>1
    <2>4. g.reg + 1 # to.reg + 1
        BY <1>3, <1>4, <2>1 DEF Addresses
    <2>5. w[g.reg] = regs[g.reg] /\ (g.bytes = 2 => w[g.reg + 1] = regs[g.reg + 1])
        <3> HIDE DEF w, to
        <3> QED
            BY <1>2, <1>4, <2>1, <2>2, <2>3, <2>4
    <2> QED
        BY <2>5, BitsOfOthers
<1>5. CASE g.reg = to.reg
    <2>1. /\ byte \cap Mask(g) = regs[g.reg] \cap Mask(g) /\ Mask(to) \cap Mask(g) = {}
          /\ f.name # "PrechargeLimitA" /\ Fits(f, v)
        BY <1>5 DEF Spoils
    <2>2. f.bytes = 1 /\ g.bytes = 1 /\ f.name \notin Blind
        <3>1. CASE Misdirected(f)
            <4>1. f.bytes = 1 /\ f.name \notin Blind /\ to.reg \notin {r - 1 : r \in Seconds}
                BY <3>1, Targets
            <4>2. g.bytes = 2 => g.reg + 1 \in Seconds /\ g.reg = (g.reg + 1) - 1
                BY <1>1 DEF Placed, Shape, Addresses
            <4>3. g.bytes # 2
                BY <1>5, <4>1, <4>2
            <4> QED
                BY <1>1, <4>1, <4>3 DEF Shape
        <3>2. CASE ~Misdirected(f)
            BY <1>1, <1>5, <3>2 DEF Misdirected, Apart
        <3> QED
            BY <3>1, <3>2
    <2> DEFINE ones == OnesOf(RawOf(f.name, v))
               new == ((byte \ Mask(to)) \cup Shifted(ones, to.lo)) \cap 0 .. 7
    <2>3. w[to.reg] = new
        <3>1. to.name = f.name /\ to.bytes = 1 /\ f.name # "AdcState"
            BY <2>2, Targets DEF Blind
        <3>2. NewBytes(to, byte, v) = <<new>>
            BY <2>1, <2>2, <3>1 DEF NewBytes, Inserted
        <3>3. new \in Byte /\ <<new>> # <<new, new>>
            BY DEF Byte
        <3> HIDE DEF new, to
        <3>4. Replaced(to.reg, <<new>>)[to.reg] = new
            BY <1>3, <3>3, RestKept
        <3> QED
            BY <3>2, <3>4 DEF Written, to
    <2>4. ASSUME NEW i \in Mask(g) PROVE i \in new <=> i \in regs[g.reg]
        <3>1. i \notin Mask(to) /\ i \in 0 .. 7 /\ (i \in byte <=> i \in regs[g.reg])
            <4>1. Mask(g) \subseteq 0 .. 7
                BY <1>1, <2>2 DEF Mask, Shape
            <4> QED
                BY <2>1, <4>1
        <3>2. i \notin Shifted(ones, to.lo)
            <4>1. ones \subseteq 0 .. f.width - 1
                BY <2>1, AskedOnes
            <4>2. to.lo \in Nat /\ to.width = f.width /\ f.width \in Nat
                BY Targets, Layout DEF Shape
            <4>3. \A j \in ones : j + to.lo \in Mask(to)
                BY <4>1, <4>2 DEF Mask
            <4> HIDE DEF ones, to
            <4> QED
                BY <3>1, <4>3 DEF Shifted
        <3> QED
            BY <3>1, <3>2
    <2>5. \A i \in Mask(g) : i \in w[g.reg] <=> i \in regs[g.reg]
        <3> HIDE DEF w, new
        <3> QED
            BY <1>5, <2>3, <2>4
    <2> HIDE DEF w
    <2>6. FieldBits(w, g) = FieldBits(regs, g)
        BY <1>1, <2>2, <2>5, BitsOfByte
    <2> QED
        BY <2>6 DEF w
<1> QED
    BY <1>4, <1>5

\* A setter that writes its own field puts the number into it.
LEMMA OwnWritten ==
    ASSUME regs \in [Addresses -> Byte], NEW f \in All, ~Misdirected(f),
           NEW v \in Inputs(f), Fits(f, v), NEW byte \in Byte
    PROVE  FieldBits(Written(f, v, byte), f) = OnesOf(RawOf(f.name, v))
<1> DEFINE ones == OnesOf(RawOf(f.name, v))
           w == Written(f, v, byte)
<1>1. ones \subseteq 0 .. f.width - 1 /\ ones \subseteq 0 .. 15
    BY AskedOnes DEF OnesOf
<1>2. Shape(f) /\ Target(f) = f
    BY Layout DEF Misdirected
<1>3. CASE f.bytes = 2
    <2> DEFINE high == {i \in 0 .. 7 : i + 8 \in ones}
               low == ones \cap 0 .. 7
    <2>1. NewBytes(f, byte, v) = <<high, low>>
        BY <1>2, <1>3 DEF NewBytes, Shape
    <2>2. f.reg \in Addresses /\ f.reg + 1 \in Addresses /\ f.lo = 0 /\ f.width \in 1 .. 11
        BY <1>2, <1>3 DEF Shape
    <2>3. high \in Byte /\ low \in Byte
        BY DEF Byte
    <2>4. w[f.reg] = high /\ w[f.reg + 1] = low
        <3> HIDE DEF high, low
        <3> QED
            BY <1>2, <2>1, <2>2, <2>3, RestKept DEF Written
    <2>5. ASSUME NEW i \in 0 .. 15 PROVE i \in Shifted(high, 8) \cup low <=> i \in ones
        <3>1. i \in Shifted(high, 8) <=> i >= 8 /\ i \in ones
            <4>1. i >= 8 => i - 8 \in 0 .. 7 /\ i = (i - 8) + 8
                OBVIOUS
            <4> QED
                BY <4>1 DEF Shifted
        <3> QED
            BY <3>1
    <2>6. Word(w, f) = Shifted(high, 8) \cup low
        BY <1>3, <2>4 DEF Word
    <2>7. \A i \in 0 .. f.width - 1 : i \in 0 .. 15 /\ i + f.lo = i
        BY <2>2
    <2> HIDE DEF ones, high, low, w
    <2> QED
        BY <1>1, <2>5, <2>6, <2>7 DEF FieldBits, ones, w
<1>4. CASE f.bytes = 1
    <2>1. PICK new \in Byte :
             /\ NewBytes(f, byte, v) = <<new>>
             /\ \A i \in 0 .. f.width - 1 : i + f.lo \in new <=> i \in ones
        <3>1. CASE f.name = "AdcState"
            <4>1. f.lo = 7 /\ f.width = 1
                BY <1>2, <3>1 DEF Shape
            <4>2. v \in {0, 1} /\ RawOf(f.name, v) = v
                <5>1. f.name \notin QuantityNames /\ f \notin Commands
                    BY <3>1 DEF QuantityNames, Commands, ResetBit, ResetWDTBit, Bit, Field
                <5>2. v \in 0 .. TwoTo(f.width) - 1
                    BY <5>1 DEF Inputs
                <5>3. TwoTo(f.width) = 2
                    BY <4>1 DEF TwoTo
                <5>4. v \in Nat
                    BY <5>2, <5>3
                <5> QED
                    BY <5>1, <5>2, <5>3, <5>4 DEF RawOf, Unit, Quotient
            <4>3. 0 \in ones <=> v = 1
                BY <4>2 DEF OnesOf, TwoTo
            <4> DEFINE new == IF v = 1 THEN {7, 3} ELSE {}
            <4>4. new \in Byte
                BY DEF Byte
            <4>5. NewBytes(f, byte, v) = <<new>>
                BY <1>4, <3>1 DEF NewBytes
            <4>6. \A i \in 0 .. f.width - 1 : i + f.lo \in new <=> i \in ones
                BY <4>1, <4>3
            <4> QED
                BY <4>4, <4>5, <4>6
        <3>2. CASE f.name # "AdcState" /\ f.name \in Blind
            <4>1. f.lo = 0 /\ f.width \in 1 .. 8
                BY <1>2, <1>4, <3>2 DEF Shape
            <4> DEFINE new == ones \cap 0 .. 7
            <4>2. new \in Byte
                BY DEF Byte
            <4>3. NewBytes(f, byte, v) = <<new>>
                BY <1>4, <3>2 DEF NewBytes
            <4>4. \A i \in 0 .. f.width - 1 : i + f.lo \in new <=> i \in ones
                BY <4>1
            <4> QED
                BY <4>2, <4>3, <4>4
        <3>3. CASE f.name = "PrechargeLimitA"
            <4>1. f.lo = 0 /\ f.width = 6 /\ f.name \notin Blind
                BY <3>3, NamedFields DEF Blind
            <4> DEFINE new == ((ones \cap 0 .. 5) \cup Shifted(byte, 6)) \cap 0 .. 7
            <4>2. new \in Byte
                BY DEF Byte
            <4>3. NewBytes(f, byte, v) = <<new>>
                BY <1>4, <3>3, <4>1 DEF NewBytes, Inserted, Clobbered
            <4>4. ASSUME NEW i \in 0 .. 5 PROVE i \in new <=> i \in ones
                <5>1. \A j \in byte : j \in 0 .. 7 /\ j + 6 # i
                    BY DEF Byte
                <5>2. i \notin Shifted(byte, 6)
                    BY <5>1 DEF Shifted
                <5> HIDE DEF ones
                <5> QED
                    BY <5>2
            <4> QED
                BY <4>1, <4>2, <4>3, <4>4
        <3>4. CASE f.name \notin Blind /\ f.name # "PrechargeLimitA"
            <4>1. f.lo \in 0 .. 7 /\ f.width \in 1 .. 11 /\ f.lo + f.width <= 8
                BY <1>2, <1>4 DEF Shape
            <4> DEFINE new == ((byte \ Mask(f)) \cup Shifted(ones, f.lo)) \cap 0 .. 7
            <4>2. new \in Byte
                BY DEF Byte
            <4>3. NewBytes(f, byte, v) = <<new>>
                <5>1. f.name # "AdcState"
                    BY <3>4 DEF Blind
                <5> QED
                    BY <1>4, <3>4, <5>1 DEF NewBytes, Inserted
            <4>4. \A i \in 0 .. f.width - 1 :
                     /\ i + f.lo \in Mask(f) /\ i + f.lo \in 0 .. 7
                     /\ i + f.lo \in Shifted(ones, f.lo) <=> i \in ones
                <5> TAKE i \in 0 .. f.width - 1
                <5>1. \A j \in ones : j \in Int /\ (i + f.lo = j + f.lo => i = j)
                    BY <1>1, <4>1
                <5>2. i + f.lo \in Shifted(ones, f.lo) <=> i \in ones
                    <6> HIDE DEF ones
                    <6> QED
                        BY <5>1 DEF Shifted
                <5>3. i + f.lo \in f.lo .. f.lo + f.width - 1 /\ i + f.lo \in 0 .. 7
                    BY <4>1
                <5> QED
                    BY <5>2, <5>3 DEF Mask
            <4>5. \A i \in 0 .. f.width - 1 : i + f.lo \in new <=> i \in ones
                BY <4>4
            <4> HIDE DEF new
            <4> QED
                BY <4>2, <4>3, <4>5
        <3> QED
            BY <3>1, <3>2, <3>3, <3>4
    <2>2. f.reg \in Addresses
        BY <1>2 DEF Shape
    <2>3. w[f.reg] = new
        BY <1>2, <2>1, <2>2, RestKept DEF Written
    <2>4. Word(w, f) = new
        BY <1>4, <2>3 DEF Word
    <2> HIDE DEF ones, w
    <2> QED
        BY <1>1, <2>1, <2>4 DEF FieldBits, ones, w
<1> QED
    BY <1>2, <1>3, <1>4 DEF Shape

\* ... so that its getter returns the value, down to a step.
LEMMA OwnReads ==
    ASSUME regs \in [Addresses -> Byte], NEW f \in All, ~Misdirected(f),
           NEW v \in Inputs(f), Fits(f, v), NEW byte \in Byte
    PROVE  Get(Written(f, v, byte), f) = Stored(f.name, v)
<1>1. RawOf(f.name, v) \in 0 .. 2047 /\ v \in Nat
    BY AskedOnes, AskedNat
<1>2. Number(FieldBits(Written(f, v, byte), f)) = RawOf(f.name, v)
    BY <1>1, OwnWritten, SumOfOnes
<1> QED
    BY <1>1, <1>2, ReadsAsStored DEF Get

-----------------------------------------------------------------------------
(* The settings *)

\* A thread that is to write has passed the checks, and read some byte.
Planned(t) ==
    LET p == todo[t]
    IN  /\ p.setting \in All /\ p.value \in Inputs(p.setting) /\ p.read \in Byte

\* The registers hold the wanted settings, but for those that are off.
ChargerInv ==
    /\ regs \in [Addresses -> Byte]
    /\ want = [f \in Fields |-> want[f]]
    /\ \A f \in Fields \ off : Get(regs, f) = want[f]
    /\ todo = [t \in Threads |-> todo[t]]
    /\ \A t \in Threads : Busy(t) => Planned(t)

LEMMA ChargerStart == ChargerInit => ChargerInv
<1> SUFFICES ASSUME ChargerInit PROVE ChargerInv
    OBVIOUS
<1>1. regs \in Contents /\ Contents \subseteq [Addresses -> Byte]
    BY RegistersAssumption DEF ChargerInit, Contents
<1>2. \A t \in Threads : ~Busy(t)
    BY DEF ChargerInit, Busy
<1> QED
    BY <1>1, <1>2 DEF ChargerInit, ChargerInv, Wants

\* A command is no setting.
LEMMA CommandsApart == ResetBit \notin Fields /\ ResetWDTBit \notin Fields
    BY DEF ResetBit, ResetWDTBit, Bit, Field, Wide, Fields, LimitFields, ChargeFields,
           RechargeFields, OTGFields, TimerFields, Control0Fields, Control1Fields, Control2Fields,
           Control3Fields, Control4Fields, Control5Fields, MPPTFields, TemperatureFields

\* Setting one field leaves alone what is wanted of the others.
LEMMA WantedOthers ==
    ASSUME want = [f \in Fields |-> want[f]], NEW f \in All, NEW v, f # ResetBit
    PROVE  /\ Wanted(f, v) = [g \in Fields |-> Wanted(f, v)[g]]
           /\ \A g \in Fields : g # f => Wanted(f, v)[g] = want[g]
           /\ f \in Fields => Wanted(f, v)[f] = Stored(f.name, v)
<1>1. CASE f = ResetWDTBit
    BY <1>1, CommandsApart DEF Wanted
<1>2. CASE f # ResetWDTBit
    <2>1. Wanted(f, v) = [want EXCEPT ![f] = Stored(f.name, v)]
        BY <1>2 DEF Wanted
    <2> QED
        BY <2>1
<1> QED
    BY <1>1, <1>2

LEMMA ThreadEnds ==
    ASSUME ChargerInv, NEW t \in Threads, todo' = [todo EXCEPT ![t] = NoWrite]
    PROVE  /\ todo' = [u \in Threads |-> todo'[u]]
           /\ \A u \in Threads : Busy(u)' => Planned(u)'
<1>1. /\ todo' = [u \in Threads |-> todo'[u]]
      /\ \A u \in Threads : u # t => todo'[u] = todo[u]
      /\ todo'[t] = NoWrite
    BY DEF ChargerInv
<1> QED
    BY <1>1 DEF Busy, Planned, ChargerInv

LEMMA SetKeeps ==
    ASSUME ChargerInv, NEW t \in Threads, Set(t)
    PROVE  ChargerInv'
<1>0. PICK f \in All : \E v \in Inputs(f), byte \in {regs[Target(f).reg], {}} :
          /\ todo' = [todo EXCEPT ![t] =
                IF Refuses(f.name, v) \/ f.name \in Silent THEN NoWrite
                ELSE [setting |-> f, value |-> v, read |-> byte]]
          /\ IF f.name \in Silent THEN off' = off \cup {f} /\ want' = Wanted(f, v)
                                 ELSE UNCHANGED <<off, want>>
    BY Zenon DEF Set, All
<1>1. PICK v \in Inputs(f), byte \in {regs[Target(f).reg], {}} :
          /\ todo' = [todo EXCEPT ![t] =
                IF Refuses(f.name, v) \/ f.name \in Silent THEN NoWrite
                ELSE [setting |-> f, value |-> v, read |-> byte]]
          /\ IF f.name \in Silent THEN off' = off \cup {f} /\ want' = Wanted(f, v)
                                 ELSE UNCHANGED <<off, want>>
    BY <1>0
<1>2. regs' = regs /\ byte \in Byte
    BY Targets DEF Set, ChargerInv, Byte
<1>3. todo' = [u \in Threads |-> todo'[u]] /\ \A u \in Threads : Busy(u)' => Planned(u)'
    <2> DEFINE p == [setting |-> f, value |-> v, read |-> byte]
    <2>1. /\ todo' = [u \in Threads |-> todo'[u]]
          /\ \A u \in Threads : u # t => todo'[u] = todo[u]
          /\ todo'[t] = NoWrite \/ todo'[t] = p
        BY <1>1 DEF ChargerInv
    <2>2. ASSUME NEW u \in Threads, Busy(u)' PROVE Planned(u)'
        <3>1. CASE u # t
            BY <2>1, <2>2, <3>1 DEF Busy, Planned, ChargerInv
        <3>2. CASE u = t
            <4>1. todo'[u] = p
                BY <2>1, <2>2, <3>2 DEF Busy
            <4> QED
                BY <1>2, <4>1 DEF Planned
        <3> QED
            BY <3>1, <3>2
    <2> QED
        BY <2>1, <2>2
<1>4. want' = [g \in Fields |-> want'[g]] /\ \A g \in Fields \ off' : Get(regs, g) = want'[g]
    <2>1. CASE f.name \in Silent
        <3>1. off' = off \cup {f} /\ want' = Wanted(f, v) /\ f # ResetBit
            BY <1>1, <2>1 DEF Silent, ResetBit, Bit, Field
        <3>2. want = [g \in Fields |-> want[g]] /\ \A g \in Fields \ off : Get(regs, g) = want[g]
            BY DEF ChargerInv
        <3> QED
            BY <3>1, <3>2, WantedOthers
    <2>2. CASE f.name \notin Silent
        BY <1>1, <2>2 DEF ChargerInv
    <2> QED
        BY <2>1, <2>2
<1> QED
    BY <1>2, <1>3, <1>4 DEF ChargerInv, Get, Unit, FieldBits, Word

LEMMA WriteKeeps ==
    ASSUME ChargerInv, NEW t \in Threads, Write(t)
    PROVE  ChargerInv'
<1> DEFINE f == todo[t].setting
           v == todo[t].value
           byte == todo[t].read
           w == Written(f, v, byte)
<1>1. /\ Busy(t) /\ todo' = [todo EXCEPT ![t] = NoWrite] /\ want' = Wanted(f, v)
      /\ f \in All /\ v \in Inputs(f) /\ byte \in Byte
      /\ regs \in [Addresses -> Byte] /\ want = [g \in Fields |-> want[g]]
      /\ \A g \in Fields \ off : Get(regs, g) = want[g]
    BY DEF ChargerInv, Write, Planned
<1>2. w \in [Addresses -> Byte]
    BY <1>1, WriteType
<1>3. ASSUME NEW g \in Fields, g # f, g \notin Spoils(f, v, byte)
      PROVE  FieldBits(w, g) = FieldBits(regs, g)
    BY <1>1, <1>3, OthersKept
<1>4. todo' = [u \in Threads |-> todo'[u]] /\ \A u \in Threads : Busy(u)' => Planned(u)'
    BY <1>1, ThreadEnds
<1> SUFFICES /\ regs' \in [Addresses -> Byte] /\ want' = [g \in Fields |-> want'[g]]
             /\ \A g \in Fields \ off' : Get(regs', g) = want'[g]
    BY <1>4 DEF ChargerInv, Get, Unit, FieldBits, Word
<1>5. CASE f = ResetBit /\ regs' = PowerOn /\ off' = {}
    <2>1. PowerOn \in [Addresses -> Byte]
        BY RegistersAssumption DEF Contents
    <2>2. want' = Wants(PowerOn)
        <3>1. ResetBit # ResetWDTBit
            BY DEF ResetBit, ResetWDTBit, Bit, Field
        <3>2. Wanted(ResetBit, v) = Wants(PowerOn)
            BY <3>1 DEF Wanted
        <3> QED
            BY <1>1, <1>5, <3>2
    <2> QED
        BY <1>5, <2>1, <2>2 DEF Wants
<1>6. CASE /\ f = ResetWDTBit /\ regs' = [w EXCEPT ![f.reg] = @ \ Mask(f)]
           /\ off' = off \cup Spoils(f, v, byte)
    <2>1. f # ResetBit /\ f \notin Fields /\ f.reg = 16 /\ f.bytes = 1 /\ Target(f) = f
        BY <1>6, CommandsApart DEF ResetWDTBit, ResetBit, Bit, Field, Target
    <2>2. want' = want
        BY <1>1, <1>6, <2>1 DEF Wanted
    <2>3. f.reg \in Addresses
        BY <2>1 DEF Addresses
    <2> HIDE DEF w
    <2>4. /\ regs' \in [Addresses -> Byte] /\ regs'[f.reg] = w[f.reg] \ Mask(f)
          /\ \A a \in Addresses : a # f.reg => regs'[a] = w[a]
        BY <1>2, <1>6, <2>3 DEF Byte
    <2>5. ASSUME NEW g \in Fields \ off' PROVE FieldBits(regs', g) = FieldBits(regs, g)
        <3>1. g \in All /\ g # f /\ g \notin Spoils(f, v, byte) /\ Shape(g) /\ Apart(f, g)
            BY <1>1, <1>6, <2>1, <2>5, Layout DEF All
        <3>2. FieldBits(regs', g) = FieldBits(w, g)
            <4>1. CASE g.reg = f.reg
                <5>1. g.bytes = 1 /\ Mask(f) \cap Mask(g) = {}
                    BY <2>1, <3>1, <4>1 DEF Apart, Spoils
                <5>2. \A i \in Mask(g) : i \in regs'[g.reg] <=> i \in w[g.reg]
                    BY <2>4, <4>1, <5>1
                <5> QED
                    BY <3>1, <5>1, <5>2, BitsOfByte
            <4>2. CASE g.reg # f.reg
                <5>1. g.reg \in Addresses /\ (g.bytes = 2 => g.reg + 1 \in Addresses)
                    BY <3>1 DEF Shape
                <5>2. g.bytes = 2 => g.reg + 1 # f.reg
                    BY <3>1 DEF Apart
                <5> QED
                    BY <2>4, <4>2, <5>1, <5>2, BitsOfOthers
            <4> QED
                BY <4>1, <4>2
        <3> QED
            BY <1>3, <2>5, <3>1, <3>2
    <2> QED
        BY <1>1, <1>6, <2>2, <2>4, <2>5 DEF Get
<1>7. CASE f \in Fields /\ regs' = w /\ off' = (off \ {f}) \cup Spoils(f, v, byte)
    <2>1. f # ResetBit
        BY <1>7, CommandsApart
    <2>2. /\ want' = [g \in Fields |-> want'[g]] /\ want'[f] = Stored(f.name, v)
          /\ \A g \in Fields : g # f => want'[g] = want[g]
        BY <1>1, <1>7, <2>1, WantedOthers
    <2>3. ASSUME NEW g \in Fields \ off' PROVE Get(w, g) = want'[g]
        <3>1. CASE g = f
            <4>1. ~Misdirected(f) /\ Fits(f, v)
                BY <1>7, <2>3, <3>1 DEF Spoils
            <4> QED
                BY <1>1, <2>2, <3>1, <4>1, OwnReads
        <3>2. CASE g # f
            <4>1. g \notin off /\ g \notin Spoils(f, v, byte)
                BY <1>7, <2>3, <3>2
            <4>2. FieldBits(w, g) = FieldBits(regs, g)
                BY <1>3, <2>3, <3>2, <4>1
            <4>3. Get(regs, g) = want[g]
                BY <1>1, <2>3, <4>1
            <4>4. want'[g] = want[g]
                BY <2>2, <2>3, <3>2
            <4> QED
                BY <4>2, <4>3, <4>4 DEF Get
        <3> QED
            BY <3>1, <3>2
    <2> QED
        BY <1>2, <1>7, <2>2, <2>3
<1> QED
    BY <1>5, <1>6, <1>7 DEF Write

\* A write that fails in the middle leaves the first byte of a wide field.
LEMMA FailKeeps ==
    ASSUME ChargerInv, NEW t \in Threads, Fail(t)
    PROVE  ChargerInv'
<1> DEFINE f == todo[t].setting
           v == todo[t].value
<1>1. /\ Busy(t) /\ todo' = [todo EXCEPT ![t] = NoWrite] /\ want' = want
      /\ f \in All /\ v \in Inputs(f)
      /\ regs \in [Addresses -> Byte] /\ want = [g \in Fields |-> want[g]]
      /\ \A g \in Fields \ off : Get(regs, g) = want[g]
    BY DEF ChargerInv, Fail, Planned
<1>2. todo' = [u \in Threads |-> todo'[u]] /\ \A u \in Threads : Busy(u)' => Planned(u)'
    BY <1>1, ThreadEnds
<1>3. CASE UNCHANGED <<regs, off>>
    BY <1>1, <1>2, <1>3 DEF ChargerInv, Get, Unit, FieldBits, Word
<1>4. CASE /\ f.bytes = 2 /\ regs' = Replaced(f.reg, <<NewBytes(f, {}, v)[1]>>)
           /\ off' = off \cup {f}
    <2>1. Shape(f) /\ f.reg \in Addresses
        BY <1>1, Layout DEF Shape
    <2> DEFINE one == NewBytes(f, {}, v)[1]
    <2>2. one \in Byte
        <3>1. f.name # "AdcState"
            BY <1>4, <2>1 DEF Shape
        <3>2. one = {i \in 0 .. 7 : i + 8 \in OnesOf(RawOf(f.name, v))}
            BY <1>4, <3>1 DEF NewBytes
        <3> QED
            BY <3>2 DEF Byte
    <2>3. <<one>> # <<one, one>>
        OBVIOUS
    <2> DEFINE at == f.reg
               new == Replaced(at, <<one>>)
    <2>7. new \in [Addresses -> Byte] /\ \A a \in Addresses : a # at => new[a] = regs[a]
        <3>1. at \in Addresses
            BY <2>1
        <3> HIDE DEF one, at
        <3> QED
            BY <1>1, <2>2, <2>3, <3>1, RestKept
    <2>4. /\ regs' \in [Addresses -> Byte]
          /\ \A a \in Addresses : a # f.reg => regs'[a] = regs[a]
        BY <1>4, <2>7
    <2>5. ASSUME NEW g \in Fields, g # f PROVE FieldBits(regs', g) = FieldBits(regs, g)
        <3>1. g.reg \in Addresses /\ (g.bytes = 2 => g.reg + 1 \in Addresses)
            BY Layout DEF Shape, All
        <3>2. g.reg # f.reg /\ (g.bytes = 2 => g.reg + 1 # f.reg)
            <4>1. Apart(f, g)
                BY <1>1, <2>5, Layout DEF All
            <4> QED
                BY <1>4, <4>1 DEF Apart
        <3> QED
            BY <2>4, <3>1, <3>2, BitsOfOthers
    <2>6. \A g \in Fields \ off' : Get(regs', g) = want'[g]
        BY <1>1, <1>4, <2>5 DEF Get
    <2> QED
        BY <1>1, <1>2, <2>4, <2>6 DEF ChargerInv, Get, Unit, FieldBits, Word
<1> QED
    BY <1>3, <1>4 DEF Fail

\* A write that only seems to succeed spoils what it should have set.
LEMMA UnheardKeeps ==
    ASSUME ChargerInv, NEW t \in Threads, Unheard(t)
    PROVE  ChargerInv'
<1> DEFINE f == todo[t].setting
           v == todo[t].value
<1>1. /\ Busy(t) /\ todo' = [todo EXCEPT ![t] = NoWrite] /\ want' = Wanted(f, v)
      /\ off' = (IF f = ResetBit THEN Fields ELSE off \cup {f}) /\ regs' = regs
      /\ f \in All /\ want = [g \in Fields |-> want[g]]
      /\ \A g \in Fields \ off : Get(regs, g) = want[g]
    BY DEF ChargerInv, Unheard, Planned
<1>2. todo' = [u \in Threads |-> todo'[u]] /\ \A u \in Threads : Busy(u)' => Planned(u)'
    BY <1>1, ThreadEnds
<1>3. want' = [g \in Fields |-> want'[g]] /\ \A g \in Fields \ off' : Get(regs, g) = want'[g]
    <2>1. CASE f = ResetBit
        BY <1>1, <2>1 DEF Wanted, Wants
    <2>2. CASE f # ResetBit
        BY <1>1, <2>2, WantedOthers
    <2> QED
        BY <2>1, <2>2
<1> QED
    BY <1>1, <1>2, <1>3 DEF ChargerInv, Get, Unit, FieldBits, Word

\* Every setting reads as it was last set, unless a call spoiled it as Spoils says (by one
\* of the flawed setters, a value that does not fit, an overlapping call, or an answer that
\* was not read), failed between its two bytes, was silent or only seemed to succeed: for
\* any number of threads and calls, any values, any first contents of the registers, and
\* whatever transfers fail.
THEOREM SettingsAreKept == ChargerSpec => []SettingsStick
<1>1. ChargerInit => ChargerInv
    BY ChargerStart
<1>2. ChargerInv /\ [ChargerNext]_chargerVars => ChargerInv'
    <2> SUFFICES ASSUME ChargerInv, [ChargerNext]_chargerVars PROVE ChargerInv'
        OBVIOUS
    <2>1. ASSUME NEW t \in Threads, Set(t) \/ Write(t) PROVE ChargerInv'
        BY <2>1, SetKeeps, WriteKeeps
    <2>2. ASSUME NEW t \in Threads, Fail(t) \/ Unheard(t) PROVE ChargerInv'
        BY <2>2, FailKeeps, UnheardKeeps
    <2>3. CASE UNCHANGED chargerVars
        BY <2>3 DEF chargerVars, ChargerInv, Busy, Planned, Get, Unit, FieldBits, Word
    <2> QED
        BY <2>1, <2>2, <2>3 DEF ChargerNext
<1>3. ChargerInv => SettingsStick
    BY DEF ChargerInv, SettingsStick
<1> QED
    BY <1>1, <1>2, <1>3, PTL DEF ChargerSpec
=============================================================================
