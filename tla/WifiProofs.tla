------------------------------ MODULE WifiProofs ------------------------------
(***************************************************************************)
(* What Wifi's locks protect, for any number of threads, listeners and     *)
(* events: the lists and the walk along them, the handlers of a driver     *)
(* that is down.                                                           *)
(***************************************************************************)
EXTENDS Wifi, SequenceTheorems, TLAPS

-----------------------------------------------------------------------------
(* Lists *)

LEMMA NextIs ==
    ASSUME NEW S, NEW s \in Seq(S), IsInjective(s), NEW k \in 1 .. Len(s)
    PROVE  NextOf(s, s[k]) = IF k < Len(s) THEN s[k + 1] ELSE NoHandle
<1> DEFINE I == {i \in 1 .. Len(s) : s[i] = s[k]}
<1>1. I = {k}
    BY DEF IsInjective
<1>2. Min({k}) = k
    BY DEF Min
<1>3. SelectInSeq(s, LAMBDA x : x = s[k]) = k
    BY <1>1, <1>2 DEF SelectInSeq
<1> QED
    BY <1>3 DEF NextOf

LEMMA RemoveAtIs ==
    ASSUME NEW S, NEW s \in Seq(S), NEW k \in 1 .. Len(s)
    PROVE  /\ RemoveAt(s, k) \in Seq(S) /\ Len(RemoveAt(s, k)) = Len(s) - 1
           /\ \A i \in 1 .. Len(s) - 1 :
                 RemoveAt(s, k)[i] = IF i < k THEN s[i] ELSE s[i + 1]
<1> DEFINE u == SubSeq(s, 1, k - 1)
           w == SubSeq(s, k + 1, Len(s))
<1>1. u \in Seq(S) /\ Len(u) = k - 1 /\ \A i \in 1 .. k - 1 : u[i] = s[i]
    OBVIOUS
<1>2. w \in Seq(S) /\ Len(w) = Len(s) - k /\ \A i \in 1 .. Len(s) - k : w[i] = s[k + i]
    OBVIOUS
<1>3. RemoveAt(s, k) = u \o w
    BY DEF RemoveAt
<1> HIDE DEF u, w
<1>4. /\ u \o w \in Seq(S) /\ Len(u \o w) = Len(u) + Len(w)
      /\ \A i \in 1 .. Len(u) + Len(w) :
            (u \o w)[i] = IF i <= Len(u) THEN u[i] ELSE w[i - Len(u)]
    BY <1>1, <1>2, ConcatProperties
<1>5. ASSUME NEW i \in 1 .. Len(s) - 1
      PROVE  (u \o w)[i] = IF i < k THEN s[i] ELSE s[i + 1]
    <2>1. i \in 1 .. Len(u) + Len(w)
        BY <1>1, <1>2
    <2>2. CASE i < k
        BY <1>1, <1>4, <2>1, <2>2
    <2>3. CASE i >= k
        <3>1. ~(i <= Len(u)) /\ i - Len(u) \in 1 .. Len(s) - k /\ k + (i - Len(u)) = i + 1
            BY <1>1, <2>3
        <3>2. (u \o w)[i] = w[i - Len(u)]
            BY <1>4, <2>1, <3>1
        <3>3. w[i - Len(u)] = s[k + (i - Len(u))]
            BY <1>2, <3>1
        <3> QED
            BY <2>3, <3>1, <3>2, <3>3
    <2>4. i < k \/ i >= k
        OBVIOUS
    <2> QED
        BY <2>2, <2>3, <2>4
<1> QED
    BY <1>1, <1>2, <1>3, <1>4, <1>5

\* A walk at h in which those of D still have their turn.
Reaches(s, h, D) ==
    IF h = NoHandle THEN D = {}
    ELSE \E k \in DOMAIN s : s[k] = h /\ \A x \in D : \E j \in k .. Len(s) : s[j] = x

LEMMA ReachesFewer ==
    ASSUME NEW s, NEW h, NEW D, Reaches(s, h, D), NEW E \in SUBSET D
    PROVE  Reaches(s, h, E)
    BY DEF Reaches

LEMMA ReachesFirst ==
    ASSUME NEW S, NoHandle \notin S, NEW s \in Seq(S)
    PROVE  Reaches(s, FirstOf(s), ToSet(s))
<1>1. CASE s = <<>>
    BY <1>1 DEF Reaches, FirstOf, ToSet
<1>2. CASE s # <<>>
    <2>1. FirstOf(s) = s[1] /\ 1 \in DOMAIN s /\ s[1] # NoHandle
        BY <1>2 DEF FirstOf
    <2>2. \A x \in ToSet(s) : \E j \in 1 .. Len(s) : s[j] = x
        BY DEF ToSet
    <2> QED
        BY <2>1, <2>2 DEF Reaches
<1> QED
    BY <1>1, <1>2

LEMMA ReachesNext ==
    ASSUME NEW S, NoHandle \notin S, NEW s \in Seq(S), IsInjective(s), NEW h, h # NoHandle,
           NEW D, Reaches(s, h, D)
    PROVE  Reaches(s, NextOf(s, h), D \ {h})
<1>1. PICK k \in DOMAIN s : s[k] = h /\ \A x \in D : \E j \in k .. Len(s) : s[j] = x
    BY DEF Reaches
<1>2. k \in 1 .. Len(s) /\ Len(s) \in Nat
    OBVIOUS
<1>3. NextOf(s, h) = IF k < Len(s) THEN s[k + 1] ELSE NoHandle
    BY <1>1, <1>2, NextIs
<1>4. \A x \in D \ {h} : \E j \in k + 1 .. Len(s) : s[j] = x
    <2>1. \A j \in k .. Len(s) : j = k \/ j \in k + 1 .. Len(s)
        BY <1>2
    <2> QED
        BY <1>1, <2>1
<1>5. CASE k < Len(s)
    <2>1. k + 1 \in DOMAIN s /\ s[k + 1] # NoHandle
        BY <1>2, <1>5
    <2> QED
        BY <1>3, <1>4, <1>5, <2>1 DEF Reaches
<1>6. CASE k = Len(s)
    <2>1. \A j : j \notin k + 1 .. Len(s)
        BY <1>2, <1>6
    <2> QED
        BY <1>2, <1>3, <1>4, <1>6, <2>1 DEF Reaches
<1> QED
    BY <1>2, <1>5, <1>6

LEMMA ReachesAppended ==
    ASSUME NEW S, NEW s \in Seq(S), NEW x \in S, NEW h, NEW D, Reaches(s, h, D)
    PROVE  Reaches(Append(s, x), h, D)
<1>1. Len(Append(s, x)) = Len(s) + 1 /\ Append(s, x) \in Seq(S)
      /\ \A i \in 1 .. Len(s) : Append(s, x)[i] = s[i]
    BY AppendProperties
<1>2. CASE h = NoHandle
    BY <1>2 DEF Reaches
<1>3. CASE h # NoHandle
    <2>1. PICK k \in DOMAIN s : s[k] = h /\ \A y \in D : \E j \in k .. Len(s) : s[j] = y
        BY <1>3 DEF Reaches
    <2>2. k \in 1 .. Len(s) /\ k \in DOMAIN Append(s, x) /\ Append(s, x)[k] = h
        BY <1>1, <2>1
    <2>3. ASSUME NEW y \in D PROVE \E j \in k .. Len(Append(s, x)) : Append(s, x)[j] = y
        <3>1. PICK j \in k .. Len(s) : s[j] = y
            BY <2>1
        <3>2. j \in 1 .. Len(s) /\ j \in k .. Len(s) + 1
            BY <2>2
        <3> QED
            BY <1>1, <3>1, <3>2
    <2> QED
        BY <1>3, <2>2, <2>3 DEF Reaches
<1> QED
    BY <1>2, <1>3

LEMMA ReachesRemoved ==
    ASSUME NEW S, NEW s \in Seq(S), NEW i \in 1 .. Len(s), NEW h, s[i] # h,
           NEW D, Reaches(s, h, D)
    PROVE  Reaches(RemoveAt(s, i), h, D \ {s[i]})
<1> DEFINE r == RemoveAt(s, i)
           n == Len(s)
           To(j) == IF j < i THEN j ELSE j - 1
<1>1. /\ r \in Seq(S) /\ Len(r) = n - 1 /\ n \in Nat
      /\ \A j \in 1 .. n - 1 : r[j] = IF j < i THEN s[j] ELSE s[j + 1]
    BY RemoveAtIs
<1> HIDE DEF r
\* Where the others go, in the same order.
<1>2. ASSUME NEW j \in 1 .. n, j # i
      PROVE  To(j) \in 1 .. n - 1 /\ r[To(j)] = s[j]
    <2>1. CASE j < i
        BY <1>1, <2>1
    <2>2. CASE j > i
        <3>1. j - 1 \in 1 .. n - 1 /\ ~(j - 1 < i) /\ (j - 1) + 1 = j
            BY <1>1, <2>2
        <3> QED
            BY <1>1, <2>2, <3>1
    <2> QED
        BY <1>2, <2>1, <2>2
<1>3. CASE h = NoHandle
    BY <1>3 DEF Reaches
<1>4. CASE h # NoHandle
    <2>1. PICK k \in DOMAIN s : s[k] = h /\ \A y \in D : \E j \in k .. Len(s) : s[j] = y
        BY <1>4 DEF Reaches
    <2>2. k \in 1 .. n /\ k # i
        BY <2>1
    <2>3. To(k) \in DOMAIN r /\ r[To(k)] = h
        <3>1. DOMAIN r = 1 .. n - 1
            BY <1>1
        <3> QED
            BY <1>2, <2>1, <2>2, <3>1
    <2>4. ASSUME NEW y \in D \ {s[i]} PROVE \E j \in To(k) .. Len(r) : r[j] = y
        <3>1. PICK j \in k .. n : s[j] = y
            BY <2>1
        <3>2. j \in 1 .. n /\ j # i /\ k <= j
            BY <2>2, <2>4, <3>1
        <3>3. To(j) \in 1 .. n - 1 /\ r[To(j)] = y
            BY <1>2, <3>1, <3>2
        <3>4. To(j) \in To(k) .. n - 1
            BY <1>1, <2>2, <3>2, <3>3
        <3> QED
            BY <1>1, <3>3, <3>4
    <2> QED
        BY <1>4, <2>3, <2>4 DEF Reaches, r
<1> QED
    BY <1>3, <1>4

\* What subscribing and unsubscribing do to a list.
LEMMA Appended ==
    ASSUME NEW S, NEW s \in Seq(S), IsInjective(s), NEW x, x \notin S
    PROVE  Append(s, x) \in Seq(S \cup {x}) /\ IsInjective(Append(s, x))
<1>1. s \in Seq(S \cup {x})
    OBVIOUS
<1>2. /\ Append(s, x) \in Seq(S \cup {x}) /\ Len(Append(s, x)) = Len(s) + 1
      /\ \A i \in 1 .. Len(s) : Append(s, x)[i] = s[i]
      /\ Append(s, x)[Len(s) + 1] = x
    BY <1>1, AppendProperties
<1>3. \A i \in 1 .. Len(s) : s[i] \in S
    OBVIOUS
<1>4. ASSUME NEW i \in 1 .. Len(s) + 1, NEW j \in 1 .. Len(s) + 1,
             Append(s, x)[i] = Append(s, x)[j]
      PROVE  i = j
    <2>1. CASE i \in 1 .. Len(s) /\ j \in 1 .. Len(s)
        BY <1>2, <1>4, <2>1 DEF IsInjective
    <2>2. CASE i = Len(s) + 1 \/ j = Len(s) + 1
        BY <1>2, <1>3, <1>4, <2>2
    <2> QED
        BY <2>1, <2>2
<1>5. DOMAIN Append(s, x) = 1 .. Len(s) + 1
    BY <1>2
<1> QED
    BY <1>2, <1>4, <1>5 DEF IsInjective

LEMMA Removed ==
    ASSUME NEW S, NEW s \in Seq(S), IsInjective(s), NEW k \in 1 .. Len(s)
    PROVE  RemoveAt(s, k) \in Seq(S) /\ IsInjective(RemoveAt(s, k))
<1> DEFINE r == RemoveAt(s, k)
           From(i) == IF i < k THEN i ELSE i + 1
<1>1. /\ r \in Seq(S) /\ Len(r) = Len(s) - 1
      /\ \A i \in 1 .. Len(s) - 1 : r[i] = IF i < k THEN s[i] ELSE s[i + 1]
    BY RemoveAtIs
<1> HIDE DEF r
<1>2. ASSUME NEW i \in 1 .. Len(s) - 1, NEW j \in 1 .. Len(s) - 1, r[i] = r[j]
      PROVE  i = j
    <2>1. From(i) \in 1 .. Len(s) /\ From(j) \in 1 .. Len(s)
        OBVIOUS
    <2>2. s[From(i)] = s[From(j)]
        BY <1>1, <1>2
    <2>3. From(i) = From(j)
        BY <2>1, <2>2 DEF IsInjective
    <2> QED
        BY <2>3
<1>3. DOMAIN r = 1 .. Len(s) - 1
    BY <1>1
<1> QED
    BY <1>1, <1>2, <1>3 DEF IsInjective, r

-----------------------------------------------------------------------------
(* Types, and _cblock *)

\* The event task has _cblock exactly while it walks along a list; so the only one who
\* changes a list meanwhile is the listener that runs.
WalkInv ==
    /\ DOMAIN lists = Lists
    /\ cblock = EventTask <=> stage \in {"scan", "ap"}
    /\ at # NoHandle => stage \in {"scan", "ap"} /\ at \in used

Stages == {"idle", "scan_enter", "scan", "ap_enter", "ap"}

LEMMA InitTypes == Init => TypeOK /\ WalkInv
<1> SUFFICES ASSUME Init PROVE TypeOK /\ WalkInv
    OBVIOUS
<1>1. Nobody \notin Threads /\ Nobody # EventTask
    BY OwnersAssumption
<1>2. queue \in Seq(Events) /\ Len(queue) = 0 /\ MaxQueue \in Nat
    BY QueueAssumption DEF Init
<1>3. \A l \in Lists : lists[l] \in Seq(used) /\ IsInjective(lists[l])
    BY DEF Init, IsInjective
<1>4. pc \in [Threads -> Labels] /\ \A t \in Threads : pc[t] # "idle" <=> lock = t
    BY <1>1 DEF Init, Labels
<1>5. {inited, scanning, loop, wants, aborted} \subseteq BOOLEAN
    BY DEF Init
<1>6. WalkInv
    BY <1>1 DEF Init, WalkInv
<1> QED
    BY <1>1, <1>2, <1>3, <1>4, <1>5, <1>6 DEF Init, TypeOK

\* The locks and the labels of init() and deinit().
LockOK ==
    /\ lock \in Threads \cup {Nobody}
    /\ pc \in [Threads -> Labels]
    /\ \A t \in Threads : pc[t] # "idle" <=> lock = t

ListsOK ==
    /\ \A l \in Lists : lists[l] \in Seq(used) /\ IsInjective(lists[l])
    /\ used \subseteq Handles /\ due \cup called \subseteq used
    /\ at \in Handles \cup {NoHandle}

DriverOK ==
    /\ mode \in {"off", "STA", "AP", "APSTA"} /\ handlers \subseteq {"wifi", "ip"}
    /\ queue \in Seq(Events) /\ Len(queue) <= MaxQueue

FlagsOK ==
    /\ inited \in BOOLEAN /\ scanning \in BOOLEAN /\ loop \in BOOLEAN
    /\ wants \in BOOLEAN /\ aborted \in BOOLEAN

LEMMA TypeParts ==
    /\ TypeOK <=> /\ LockOK /\ ListsOK /\ DriverOK /\ FlagsOK
                  /\ cblock \in {EventTask, Nobody} /\ stage \in Stages
    /\ TypeOK' <=> /\ LockOK' /\ ListsOK' /\ DriverOK' /\ FlagsOK'
                   /\ cblock' \in {EventTask, Nobody} /\ stage' \in Stages
<1>1. TypeOK <=> /\ LockOK /\ ListsOK /\ DriverOK /\ FlagsOK
                /\ cblock \in {EventTask, Nobody} /\ stage \in Stages
    BY Zenon DEF TypeOK, LockOK, ListsOK, DriverOK, FlagsOK, Stages
<1>2. TypeOK' <=> /\ LockOK' /\ ListsOK' /\ DriverOK' /\ FlagsOK'
                 /\ cblock' \in {EventTask, Nobody} /\ stage' \in Stages
    BY Zenon DEF TypeOK, LockOK, ListsOK, DriverOK, FlagsOK, Stages
<1> QED
    BY <1>1, <1>2

LEMMA LockStep == LockOK /\ [Next]_vars => LockOK'
<1> SUFFICES ASSUME LockOK, [Next]_vars PROVE LockOK'
    OBVIOUS
<1> USE OwnersAssumption
\* A step on the way, the lock still held.
<1>1. ASSUME NEW t \in Threads, NEW from \in Labels \ {"idle"}, NEW to \in Labels \ {"idle"},
             Go(t, from, to), lock' = lock
      PROVE  LockOK'
    BY <1>1 DEF LockOK, Go
<1>2. ASSUME NEW t \in Threads, Enter(t) PROVE LockOK'
    BY <1>2 DEF LockOK, Enter, Go, LockFree, Labels, Deiniting
<1>3. ASSUME NEW t \in Threads, InitSetup(t) PROVE LockOK'
    BY <1>1, <1>3 DEF InitSetup, Labels
<1>4. ASSUME NEW t \in Threads, Register(t) PROVE LockOK'
    <2>1. /\ lock' = lock
          /\ \/ Go(t, "init_wifi", "init_ip") \/ Go(t, "init_ip", "init_start")
             \/ Go(t, "deinit_wifi", "deinit_ip") \/ Go(t, "deinit_ip", "deinit_stop")
        BY <1>4 DEF Register
    <2>2. {"init_wifi", "init_ip", "init_start", "deinit_wifi", "deinit_ip", "deinit_stop"}
             \subseteq Labels \ {"idle"}
        BY DEF Labels, Deiniting
    <2> QED
        BY <1>1, <2>1, <2>2
<1>5. ASSUME NEW t \in Threads, StartStop(t) PROVE LockOK'
    <2>1. lock' = lock /\ (Go(t, "init_start", "init_done") \/ Go(t, "deinit_stop", "deinit_done"))
        BY <1>5 DEF StartStop
    <2>2. {"init_start", "init_done", "deinit_stop", "deinit_done"} \subseteq Labels \ {"idle"}
        BY DEF Labels, Deiniting
    <2> QED
        BY <1>1, <2>1, <2>2
<1>6. ASSUME NEW t \in Threads, Done(t) PROVE LockOK'
    <2>1. lock' = Nobody /\ \E from \in Labels \ {"idle"} : Go(t, from, "idle")
        BY <1>6 DEF Done, Unlocked, Labels, Deiniting
    <2> QED
        BY <2>1 DEF LockOK, Go, Labels
<1>7. ASSUME UNCHANGED user PROVE LockOK'
    BY <1>7 DEF user, LockOK
<1>8. \/ \E t \in Threads : Enter(t) \/ InitSetup(t) \/ Register(t) \/ StartStop(t) \/ Done(t)
      \/ UNCHANGED user
    BY DEF Next, vars, Bring, Pass, Call, Connect, ApStart, ApStop, ModeCall, Scan, Subscribe,
           Unsubscribe, Dispatch, EnterPass, ListenerReturns, LeavePass, ListenerCalls, Post,
           Combine
<1> QED
    BY <1>2, <1>3, <1>4, <1>5, <1>6, <1>7, <1>8

LEMMA NextOfType ==
    ASSUME NEW S, NEW s \in Seq(S), NEW h
    PROVE  NextOf(s, h) \in S \cup {NoHandle}
<1> DEFINE i == SelectInSeq(s, LAMBDA x : x = h)
<1>1. NextOf(s, h) = IF i \in 1 .. Len(s) - 1 THEN s[i + 1] ELSE NoHandle
    BY DEF NextOf
<1> HIDE DEF i
<1>2. i \in 1 .. Len(s) - 1 => i + 1 \in 1 .. Len(s)
    OBVIOUS
<1> QED
    BY <1>1, <1>2

LEMMA FirstOfType ==
    ASSUME NEW S, NEW s \in Seq(S)
    PROVE  FirstOf(s) \in S \cup {NoHandle} /\ ToSet(s) \subseteq S
    BY DEF FirstOf, ToSet

LEMMA ListIs == List = lists["scan"] \/ List = lists["ap"]
    BY DEF List

LEMMA ListsStep == ListsOK /\ WalkInv /\ [Next]_vars => ListsOK'
<1> SUFFICES ASSUME ListsOK, WalkInv, [Next]_vars PROVE ListsOK'
    OBVIOUS
<1>1. List \in Seq(used)
    BY ListIs DEF ListsOK, Lists
<1>2. ASSUME NEW t, NEW l \in Lists, NEW h \in Handles, Subscribe(t, l, h) PROVE ListsOK'
    <2>1. /\ h \notin used /\ used' = used \cup {h}
          /\ lists' = [lists EXCEPT ![l] = Append(@, h)] /\ UNCHANGED <<due, called, at>>
        BY <1>2 DEF Subscribe, task, pass
    <2>2. ASSUME NEW m \in Lists PROVE lists'[m] \in Seq(used') /\ IsInjective(lists'[m])
        <3>1. lists[m] \in Seq(used) /\ IsInjective(lists[m])
            BY DEF ListsOK
        <3>2. CASE m = l
            <4>1. lists'[m] = Append(lists[m], h)
                BY <2>1, <3>2 DEF WalkInv
            <4> QED
                BY <2>1, <3>1, <4>1, Appended
        <3>3. CASE m # l
            <4>1. lists'[m] = lists[m]
                BY <2>1, <3>3 DEF WalkInv
            <4> QED
                BY <2>1, <3>1, <4>1
        <3> QED
            BY <3>2, <3>3
    <2> QED
        BY <2>1, <2>2 DEF ListsOK
<1>3. ASSUME NEW t, NEW l \in Lists, NEW h \in Handles, Unsubscribe(t, l, h) PROVE ListsOK'
    <2>1. PICK i \in DOMAIN lists[l] :
              lists[l][i] = h /\ lists' = [lists EXCEPT ![l] = RemoveAt(@, i)]
        BY <1>3 DEF Unsubscribe
    <2>2. due' = due \ {h} /\ UNCHANGED <<used, called, at>>
        BY <1>3 DEF Unsubscribe, task
    <2>3. ASSUME NEW m \in Lists PROVE lists'[m] \in Seq(used) /\ IsInjective(lists'[m])
        <3>1. lists[m] \in Seq(used) /\ IsInjective(lists[m])
            BY DEF ListsOK
        <3>2. CASE m = l
            <4>1. lists'[m] = RemoveAt(lists[m], i) /\ i \in 1 .. Len(lists[m])
                BY <2>1, <3>1, <3>2 DEF WalkInv
            <4> QED
                BY <3>1, <4>1, Removed
        <3>3. CASE m # l
            <4>1. lists'[m] = lists[m]
                BY <2>1, <3>3 DEF WalkInv
            <4> QED
                BY <3>1, <4>1
        <3> QED
            BY <3>2, <3>3
    <2> QED
        BY <2>2, <2>3 DEF ListsOK
<1>4. ASSUME Dispatch PROVE ListsOK'
    BY <1>4 DEF Dispatch, subs, ListsOK
<1>5. ASSUME EnterPass PROVE ListsOK'
    <2>1. /\ at' = FirstOf(List) /\ due' = ToSet(List) /\ called' = {}
          /\ UNCHANGED <<lists, used>>
        BY <1>5 DEF EnterPass
    <2>2. FirstOf(List) \in used \cup {NoHandle} /\ ToSet(List) \subseteq used
        BY <1>1, FirstOfType
    <2> QED
        BY <2>1, <2>2 DEF ListsOK
<1>6. ASSUME ListenerCalls PROVE ListsOK'
    BY <1>6 DEF ListenerCalls, subs, ListsOK, WalkInv
<1>7. ASSUME ListenerReturns PROVE ListsOK'
    <2>1. /\ at' = NextOf(List, at) /\ called' = called \cup {at} /\ at \in used
          /\ UNCHANGED <<lists, used, due>>
        BY <1>7 DEF ListenerReturns, subs, WalkInv
    <2>2. NextOf(List, at) \in used \cup {NoHandle}
        BY <1>1, NextOfType
    <2> QED
        BY <2>1, <2>2 DEF ListsOK
<1>8. ASSUME UNCHANGED <<lists, used, at, due, called>> PROVE ListsOK'
    BY <1>8 DEF ListsOK
<1>9. \/ \E t \in Threads \cup {EventTask}, l \in Lists, h \in Handles :
            Subscribe(t, l, h) \/ Unsubscribe(t, l, h)
      \/ Dispatch \/ EnterPass \/ ListenerCalls \/ ListenerReturns
      \/ UNCHANGED <<lists, used, at, due, called>>
    BY DEF Next, vars, subs, task, pass, Enter, Bring, InitSetup, Register, StartStop, Done, Pass,
           Call, Connect, ApStart, ApStop, ModeCall, Scan, LeavePass, Post, Combine
<1> QED
    BY <1>2, <1>3, <1>4, <1>5, <1>6, <1>7, <1>8, <1>9

LEMMA DriverStep == DriverOK /\ [Next]_vars => DriverOK'
<1> SUFFICES ASSUME DriverOK, [Next]_vars PROVE DriverOK'
    OBVIOUS
<1> USE QueueAssumption
<1>1. ASSUME NEW t \in Threads, Register(t) PROVE DriverOK'
    BY <1>1 DEF Register, Unregistered, DriverOK
<1>2. ASSUME NEW t \in Threads, StartStop(t) PROVE DriverOK'
    BY <1>2 DEF StartStop, DriverOK
<1>3. ASSUME NEW t \in Threads \cup {EventTask}, Call(t) PROVE DriverOK'
    BY <1>3 DEF Call, Connect, ApStart, ApStop, ModeCall, WithAp, WithSta, DriverOK
<1>4. ASSUME Dispatch PROVE DriverOK'
    <2>1. queue # <<>> /\ queue' = Tail(queue) /\ UNCHANGED <<mode, handlers>>
        BY <1>4 DEF Dispatch
    <2>2. queue' \in Seq(Events) /\ Len(queue') <= MaxQueue
        BY <2>1 DEF DriverOK
    <2> QED
        BY <2>1, <2>2 DEF DriverOK
<1>5. ASSUME NEW e \in Events, Post(e) PROVE DriverOK'
    <2>1. queue' = Append(queue, e) /\ Len(queue) < MaxQueue /\ UNCHANGED <<mode, handlers>>
        BY <1>5 DEF Post
    <2>2. queue' \in Seq(Events) /\ Len(queue') <= MaxQueue
        BY <2>1 DEF DriverOK
    <2> QED
        BY <2>1, <2>2 DEF DriverOK
<1>6. ASSUME Combine PROVE DriverOK'
    BY <1>6 DEF Combine, DriverOK
<1>7. ASSUME UNCHANGED <<mode, handlers, queue>> PROVE DriverOK'
    BY <1>7 DEF DriverOK
<1>8. \/ \E t \in Threads : Register(t) \/ StartStop(t)
      \/ \E t \in Threads \cup {EventTask} : Call(t)
      \/ Dispatch \/ (\E e \in Events : Post(e)) \/ Combine
      \/ UNCHANGED <<mode, handlers, queue>>
    BY DEF Next, vars, driver, Enter, Bring, InitSetup, Done, Pass, Scan, Subscribe, Unsubscribe,
           EnterPass, LeavePass, ListenerCalls, ListenerReturns
<1> QED
    BY <1>1, <1>2, <1>3, <1>4, <1>5, <1>6, <1>7, <1>8

LEMMA FlagsStep == FlagsOK /\ [Next]_vars => FlagsOK'
<1> SUFFICES ASSUME FlagsOK, [Next]_vars PROVE FlagsOK'
    OBVIOUS
<1>1. inited' \in BOOLEAN
    <2>1. inited' \in {inited, TRUE, FALSE}
        BY DEF Next, vars, user, Enter, Bring, InitSetup, Register, StartStop, Done, Scan, Call,
               Connect, ApStart, ApStop, ModeCall, Subscribe, Unsubscribe, Dispatch, Pass,
               EnterPass, LeavePass, ListenerReturns, ListenerCalls, Post, Combine
    <2> QED
        BY <2>1 DEF FlagsOK
<1>2. loop' \in BOOLEAN
    <2>1. loop' \in {loop, TRUE}
        BY DEF Next, vars, driver, Enter, Bring, InitSetup, Register, StartStop, Done, Scan, Call,
               Connect, ApStart, ApStop, ModeCall, Subscribe, Unsubscribe, Dispatch, Pass,
               EnterPass, LeavePass, ListenerReturns, ListenerCalls, Post, Combine
    <2> QED
        BY <2>1 DEF FlagsOK
<1>3. wants' \in BOOLEAN
    <2>1. \/ wants' \in {wants, TRUE}
          \/ \E t : wants' = (wants /\ t # EventTask)
        BY DEF Next, vars, task, Enter, Bring, InitSetup, Register, StartStop, Done, Scan, Call,
               Connect, ApStart, ApStop, ModeCall, Subscribe, Unsubscribe, Dispatch, Pass,
               EnterPass, LeavePass, ListenerReturns, ListenerCalls, Post, Combine
    <2> QED
        BY <2>1, Zenon DEF FlagsOK
<1>4. scanning' \in BOOLEAN
    <2>1. \/ scanning' \in {scanning, FALSE, Scanned}
          \/ \E e : scanning' = (scanning /\ e # "scan_done")
        BY DEF Next, vars, driver, Enter, Bring, InitSetup, Register, StartStop, Done, Scan, Call,
               Connect, ApStart, ApStop, ModeCall, Subscribe, Unsubscribe, Dispatch, Pass,
               EnterPass, LeavePass, ListenerReturns, ListenerCalls, Post, Combine
    <2>2. Scanned \in BOOLEAN
        BY Zenon DEF Scanned
    <2> QED
        BY <2>1, <2>2, Zenon DEF FlagsOK
<1>5. aborted' \in BOOLEAN
    <2>1. \/ aborted' \in {aborted, loop}
          \/ \E x, y : aborted' = (x \in handlers /\ y = "scan_done" /\ mode = "off")
        BY DEF Next, vars, driver, Enter, Bring, InitSetup, Register, StartStop, Done, Scan, Call,
               Connect, ApStart, ApStop, ModeCall, Subscribe, Unsubscribe, Dispatch, Pass,
               EnterPass, LeavePass, ListenerReturns, ListenerCalls, Post, Combine
    <2> QED
        BY <2>1, Zenon DEF FlagsOK
<1> QED
    BY <1>1, <1>2, <1>3, <1>4, <1>5 DEF FlagsOK

LEMMA WalkStep == ListsOK /\ WalkInv /\ stage \in Stages /\ [Next]_vars
                     => WalkInv' /\ cblock' \in {EventTask, cblock, Nobody} /\ stage' \in Stages
<1> SUFFICES ASSUME ListsOK, WalkInv, stage \in Stages, [Next]_vars
             PROVE  WalkInv' /\ cblock' \in {EventTask, cblock, Nobody} /\ stage' \in Stages
    OBVIOUS
<1> USE OwnersAssumption DEF Stages
<1> DEFINE Goal == WalkInv' /\ cblock' \in {EventTask, cblock, Nobody} /\ stage' \in Stages
<1>1. List \in Seq(used)
    BY ListIs DEF ListsOK, Lists
<1>2. ASSUME NEW t, NEW l \in Lists, NEW h \in Handles,
             Subscribe(t, l, h) \/ Unsubscribe(t, l, h)
      PROVE  Goal
    <2>1. DOMAIN lists' = DOMAIN lists /\ used \subseteq used'
          /\ UNCHANGED <<cblock, stage, at>>
        BY <1>2 DEF Subscribe, Unsubscribe, task
    <2> QED
        BY <2>1 DEF WalkInv
<1>3. ASSUME Dispatch PROVE Goal
    <2>1. stage = "idle" /\ stage' \in {"idle", "scan_enter", "ap_enter"}
          /\ UNCHANGED <<cblock, lists, used, at>>
        BY <1>3 DEF Dispatch, subs, AfterNoResults
    <2> QED
        BY <2>1 DEF WalkInv
<1>4. ASSUME EnterPass PROVE Goal
    <2>1. /\ cblock' = EventTask /\ stage' \in {"scan", "ap"} /\ at' = FirstOf(List)
          /\ UNCHANGED <<lists, used>>
        BY <1>4 DEF EnterPass
    <2>2. FirstOf(List) \in used \cup {NoHandle}
        BY <1>1, FirstOfType
    <2> QED
        BY <2>1, <2>2 DEF WalkInv
<1>5. ASSUME ListenerReturns PROVE Goal
    <2>1. /\ at # NoHandle /\ at' = NextOf(List, at) /\ UNCHANGED <<cblock, lists, used, stage>>
        BY <1>5 DEF ListenerReturns, subs
    <2>2. NextOf(List, at) \in used \cup {NoHandle}
        BY <1>1, NextOfType
    <2> QED
        BY <2>1, <2>2 DEF WalkInv
<1>6. ASSUME LeavePass PROVE Goal
    <2>1. /\ cblock' = Nobody /\ stage' \in {"idle", "ap_enter"} /\ at' = NoHandle
          /\ UNCHANGED <<lists, used>>
        BY <1>6 DEF LeavePass
    <2> QED
        BY <2>1 DEF WalkInv
<1>7. ASSUME UNCHANGED <<cblock, lists, used, stage, at>> PROVE Goal
    BY <1>7 DEF WalkInv
<1>8. \/ \E t \in Threads \cup {EventTask}, l \in Lists, h \in Handles :
            Subscribe(t, l, h) \/ Unsubscribe(t, l, h)
      \/ Dispatch \/ EnterPass \/ ListenerReturns \/ LeavePass
      \/ UNCHANGED <<cblock, lists, used, stage, at>>
    BY DEF Next, vars, subs, task, pass, Enter, Bring, InitSetup, Register, StartStop, Done, Pass,
           Call, Connect, ApStart, ApStop, ModeCall, Scan, ListenerCalls, Post, Combine
<1> QED
    BY <1>2, <1>3, <1>4, <1>5, <1>6, <1>7, <1>8

LEMMA TypeStep == TypeOK /\ WalkInv /\ [Next]_vars => TypeOK' /\ WalkInv'
    BY TypeParts, LockStep, ListsStep, DriverStep, FlagsStep, WalkStep

\* TypeOK, for any threads, listeners, queue and contract: it says that the thread that is
\* inside init() or deinit(), and no other, has _lock, on every path to their returns; and
\* that no listener is in a list twice.
THEOREM TypeCorrect == Spec => []TypeOK
<1> QED
    BY InitTypes, TypeStep, PTL DEF Spec

-----------------------------------------------------------------------------
(* The walk along a list *)

\* The listeners that were subscribed when the walk began, still are, and have not been
\* called, are ahead of it.
TurnInv == stage \in {"scan", "ap"} => Reaches(List, at, due \ called)

LEMMA TurnStep ==
    ASSUME ~SelfErase
    PROVE  ListsOK /\ WalkInv /\ TurnInv /\ [Next]_vars => TurnInv'
<1> SUFFICES ASSUME ListsOK, WalkInv, TurnInv, [Next]_vars PROVE TurnInv'
    OBVIOUS
<1> USE OwnersAssumption
<1>1. List \in Seq(used) /\ IsInjective(List) /\ NoHandle \notin used
    BY ListIs, HandlesAssumption DEF ListsOK, Lists
<1>2. ASSUME NEW t, NEW l \in Lists, NEW h \in Handles, Subscribe(t, l, h) PROVE TurnInv'
    <2>1. /\ lists' = [lists EXCEPT ![l] = Append(@, h)]
          /\ UNCHANGED <<stage, at, due, called>>
        BY <1>2 DEF Subscribe, task, pass
    <2>2. List' = List \/ List' = Append(List, h)
        BY <2>1 DEF List, WalkInv, Lists
    <2>3. List \in Seq(used \cup {h})
        BY <1>1
    <2>4. ASSUME stage \in {"scan", "ap"} PROVE Reaches(List', at, due \ called)
        <3>1. Reaches(List, at, due \ called)
            BY <2>4 DEF TurnInv
        <3>2. Reaches(Append(List, h), at, due \ called)
            <4> HIDE DEF List
            <4> QED
                BY <2>3, <3>1, ReachesAppended
        <3> QED
            BY <2>2, <3>1, <3>2, Zenon
    <2> QED
        BY <2>1, <2>4 DEF TurnInv
<1>3. ASSUME NEW t, NEW l \in Lists, NEW h \in Handles, Unsubscribe(t, l, h) PROVE TurnInv'
    <2> SUFFICES ASSUME stage \in {"scan", "ap"}
                 PROVE  Reaches(List', at, due' \ called)
        BY <1>3 DEF TurnInv, Unsubscribe, task
    <2>1. PICK i \in DOMAIN lists[l] :
              lists[l][i] = h /\ lists' = [lists EXCEPT ![l] = RemoveAt(@, i)]
        BY <1>3 DEF Unsubscribe
    <2>2. due' = due \ {h} /\ stage' = stage
        BY <1>3 DEF Unsubscribe, task
    <2>3. h # at
        <3>1. t = EventTask
            BY <1>3 DEF Unsubscribe, MaySubs, MayTake, WalkInv
        <3> QED
            BY <1>3, <3>1 DEF Unsubscribe
    <2>4. Reaches(List, at, due \ called)
        BY DEF TurnInv
    <2>5. due' \ called = (due \ called) \ {h}
        BY <2>2
    <2>6. CASE List = lists[l] /\ List' = RemoveAt(List, i)
        <3>1. i \in 1 .. Len(List) /\ List[i] = h
            BY <1>1, <2>1, <2>6
        <3>2. Reaches(RemoveAt(List, i), at, (due \ called) \ {h})
            BY <1>1, <2>3, <2>4, <3>1, ReachesRemoved
        <3> QED
            BY <2>5, <2>6, <3>2, Zenon
    <2>7. CASE List' = List
        <3>1. Reaches(List, at, (due \ called) \ {h})
            BY <2>4, ReachesFewer
        <3> QED
            BY <2>5, <2>7, <3>1, Zenon
    <2>8. (List = lists[l] /\ List' = RemoveAt(List, i)) \/ List' = List
        BY <2>1, <2>2 DEF List, WalkInv, Lists
    <2> QED
        BY <2>6, <2>7, <2>8
<1>4. ASSUME Dispatch PROVE TurnInv'
    <2>1. stage' \in {"idle", "scan_enter", "ap_enter"}
        BY <1>4 DEF Dispatch, AfterNoResults
    <2> QED
        BY <2>1 DEF TurnInv
<1>5. ASSUME EnterPass PROVE TurnInv'
    <2>1. /\ at' = FirstOf(List) /\ due' = ToSet(List) /\ called' = {}
        BY <1>5 DEF EnterPass
    <2>2. List' = List
        BY <1>5 DEF EnterPass, List
    <2>3. Reaches(List, FirstOf(List), ToSet(List)) /\ ToSet(List) \ {} = ToSet(List)
        BY <1>1, ReachesFirst
    <2> QED
        BY <2>1, <2>2, <2>3 DEF TurnInv
<1>6. ASSUME ListenerCalls PROVE TurnInv'
    <2>1. called' = called \cup {at} /\ UNCHANGED <<lists, stage, at, due>>
        BY <1>6 DEF ListenerCalls, subs
    <2>2. List' = List /\ due' \ called' \in SUBSET (due \ called)
        BY <2>1 DEF List
    <2>3. stage \in {"scan", "ap"} => Reaches(List, at, due' \ called')
        BY <2>2, ReachesFewer DEF TurnInv
    <2> QED
        BY <2>1, <2>2, <2>3 DEF TurnInv
<1>7. ASSUME ListenerReturns PROVE TurnInv'
    <2>1. /\ at # NoHandle /\ at' = NextOf(List, at) /\ called' = called \cup {at}
          /\ UNCHANGED <<lists, stage, due>>
        BY <1>7 DEF ListenerReturns, subs
    <2>2. List' = List /\ due' \ called' = (due \ called) \ {at}
        BY <2>1 DEF List
    <2>3. stage \in {"scan", "ap"} => Reaches(List, NextOf(List, at), (due \ called) \ {at})
        BY <1>1, <2>1, ReachesNext DEF TurnInv
    <2> QED
        BY <2>1, <2>2, <2>3 DEF TurnInv
<1>8. ASSUME LeavePass PROVE TurnInv'
    BY <1>8 DEF LeavePass, TurnInv
<1>9. ASSUME UNCHANGED <<lists, stage, at, due, called>> PROVE TurnInv'
    BY <1>9 DEF TurnInv, List
<1>10. \/ \E t \in Threads \cup {EventTask}, l \in Lists, h \in Handles :
             Subscribe(t, l, h) \/ Unsubscribe(t, l, h)
       \/ Dispatch \/ EnterPass \/ ListenerCalls \/ ListenerReturns \/ LeavePass
       \/ UNCHANGED <<lists, stage, at, due, called>>
    BY DEF Next, vars, subs, task, pass, Enter, Bring, InitSetup, Register, StartStop, Done, Pass,
           Call, Connect, ApStart, ApStop, ModeCall, Scan, Post, Combine
<1> QED
    BY <1>2, <1>3, <1>4, <1>5, <1>6, <1>7, <1>8, <1>9, <1>10

LEMMA Walking ==
    ASSUME ~SelfErase
    PROVE  Spec => [](TypeOK /\ WalkInv /\ TurnInv)
<1>1. Init => TypeOK /\ WalkInv /\ TurnInv
    BY InitTypes DEF Init, TurnInv
<1>2. TypeOK /\ WalkInv /\ TurnInv /\ [Next]_vars => (TypeOK /\ WalkInv /\ TurnInv)'
    BY TypeStep, TurnStep, TypeParts
<1> QED
    BY <1>1, <1>2, PTL DEF Spec

\* RunningIsSubscribed, when no listener unsubscribes itself: the loops of onEventWifi() and
\* onEventIp() never stand on an erased node.
THEOREM NeverOnErased ==
    ASSUME ~SelfErase
    PROVE  Spec => []RunningIsSubscribed
<1>1. TypeOK /\ WalkInv /\ TurnInv => RunningIsSubscribed
    <2> SUFFICES ASSUME TypeOK, WalkInv, TurnInv, at # NoHandle PROVE at \in ToSet(List)
        BY DEF RunningIsSubscribed
    <2>1. Reaches(List, at, due \ called)
        BY DEF WalkInv, TurnInv
    <2> QED
        BY <2>1 DEF Reaches, ToSet
<1> QED
    BY <1>1, Walking, PTL

\* EventReachesAll, when no listener unsubscribes itself, however many there are and however
\* the lists change: an event that has a handler reaches each listener that was subscribed
\* when its turn began and still is.
THEOREM EveryListenerIsCalled ==
    ASSUME ~SelfErase
    PROVE  Spec => EventReachesAll
<1> DEFINE A == /\ Len(queue') < Len(queue) /\ Base(Head(queue)) \in handlers => stage' # "idle"
                /\ stage # "idle" /\ stage' = "idle" => stage = "ap" /\ due \subseteq called
<1>1. TypeOK /\ WalkInv /\ TurnInv /\ [Next]_vars => [A]_vars
    <2> SUFFICES ASSUME TypeOK, WalkInv, TurnInv, Next PROVE A
        OBVIOUS
    <2>1. ASSUME Dispatch PROVE A
        <3>1. stage = "idle"
            BY <2>1 DEF Dispatch
        <3>2. Base(Head(queue)) \in handlers => stage' \in {"scan_enter", "ap_enter"}
            BY <2>1 DEF Dispatch, AfterNoResults
        <3> QED
            BY <3>1, <3>2
    <2>2. ASSUME LeavePass PROVE A
        <3>1. queue' = queue /\ stage \in {"scan", "ap"} /\ at = NoHandle
            BY <2>2 DEF LeavePass
        <3>2. due \subseteq called
            BY <3>1 DEF TurnInv, Reaches
        <3>3. stage' = "idle" => stage = "ap"
            BY <2>2 DEF LeavePass
        <3>4. ~(Len(queue') < Len(queue))
            BY <3>1 DEF TypeOK
        <3> QED
            BY <3>2, <3>3, <3>4
    <2>3. ASSUME NEW e \in Events, Post(e) PROVE A
        <3>1. stage' = stage /\ queue' = Append(queue, e)
            BY <2>3 DEF Post, task
        <3>2. ~(Len(queue') < Len(queue))
            BY <3>1 DEF TypeOK
        <3> QED
            BY <3>1, <3>2
    <2>4. ASSUME queue' = queue, stage' = stage \/ stage' # "idle" PROVE A
        <3>1. ~(Len(queue') < Len(queue))
            BY <2>4 DEF TypeOK
        <3> QED
            BY <2>4, <3>1
    <2>5. \/ Dispatch \/ LeavePass \/ \E e \in Events : Post(e)
          \/ queue' = queue /\ (stage' = stage \/ stage' # "idle")
        BY DEF Next, task, Enter, Bring, InitSetup, Register, StartStop, Done, Pass, Call, Connect,
               ApStart, ApStop, ModeCall, Scan, Subscribe, Unsubscribe, EnterPass, ListenerCalls,
               ListenerReturns, Combine
    <2> QED
        BY <2>1, <2>2, <2>3, <2>4, <2>5
<1>2. (TypeOK /\ WalkInv /\ TurnInv) /\ [Next]_vars => [A]_vars
    BY <1>1
<1> QED
    BY <1>2, Walking, PTL DEF Spec, EventReachesAll

-----------------------------------------------------------------------------
(* init() and deinit() *)

\* How far the driver has come: where the owner of _lock is, or what it left.
Phase == IF lock = Nobody THEN (IF inited THEN "up" ELSE "down") ELSE pc[lock]

Initing == {"init_setup", "init_wifi", "init_ip", "init_start"}
Phases  == (Labels \ {"idle"}) \cup {"up", "down"}

\* What is registered, and whether the driver runs, in each phase.  No event is posted before
\* the driver first runs; those that are left in the queue when it stops find no handler.
PhaseInv ==
    /\ Phase \in Phases
    /\ inited <=> Phase \in Deiniting \cup {"up"}
    /\ "wifi" \in handlers <=>
          Phase \in {"init_ip", "init_start", "init_done", "up", "deinit_wifi"}
    /\ "ip" \in handlers <=>
          Phase \in {"init_start", "init_done", "up", "deinit_wifi", "deinit_ip"}
    /\ mode # "off" <=>
          Phase \in {"init_done", "up", "deinit_wifi", "deinit_ip", "deinit_stop"}
    /\ Phase \in Initing => queue = <<>>
    /\ stage # "idle" => Phase \in {"init_done", "up", "deinit_wifi", "deinit_ip"}
    /\ ~loop => Phase \in {"down", "init_setup"} /\ queue = <<>>
    /\ Phase = "init_setup" => ~loop
    /\ ~aborted

LEMMA PhaseStep ==
    ASSUME "init_once" \in Contract
    PROVE  TypeOK /\ PhaseInv /\ [Next]_vars => PhaseInv'
<1> SUFFICES ASSUME TypeOK, PhaseInv, [Next]_vars PROVE PhaseInv'
    OBVIOUS
<1> USE OwnersAssumption
<1>1. /\ lock \in Threads \cup {Nobody} /\ pc \in [Threads -> Labels]
      /\ \A t \in Threads : pc[t] # "idle" <=> lock = t
    BY DEF TypeOK
\* A thread on its way has the lock, and keeps it until it is done.
<1>2. ASSUME NEW t \in Threads, NEW from, NEW to, from # "idle", Go(t, from, to), lock' = lock
      PROVE  Phase = from /\ Phase' = to
    BY <1>1, <1>2 DEF Go, Phase
<1>3. ASSUME UNCHANGED user PROVE Phase' = Phase /\ inited' = inited
    BY <1>3 DEF user, Phase
<1>4. ASSUME NEW t \in Threads, Enter(t) PROVE PhaseInv'
    <2>1. /\ lock = Nobody /\ lock' = t /\ UNCHANGED <<inited, driver, queue, stage>>
          /\ \/ ~inited /\ ~loop /\ Go(t, "idle", "init_setup")
             \/ inited /\ Go(t, "idle", "deinit_wifi")
        BY <1>4 DEF Enter, LockFree, MayInit, task
    <2>2. /\ Phase = (IF inited THEN "up" ELSE "down")
          /\ Phase' = (IF inited THEN "deinit_wifi" ELSE "init_setup")
        BY <1>1, <2>1 DEF Phase, Go
    <2> QED
        BY <2>1, <2>2 DEF PhaseInv, driver, Phases, Labels, Deiniting, Initing
<1>5. ASSUME NEW t \in Threads, InitSetup(t) PROVE PhaseInv'
    <2>1. /\ Phase = "init_setup" /\ Phase' = "init_wifi"
          /\ aborted' = loop /\ loop' = TRUE
          /\ UNCHANGED <<inited, mode, handlers, queue, stage>>
        BY <1>2, <1>5 DEF InitSetup, task
    <2> QED
        BY <2>1 DEF PhaseInv, Phases, Labels, Deiniting, Initing
<1>6. ASSUME NEW t \in Threads, Register(t) PROVE PhaseInv'
    <2>1. stage = "idle" /\ UNCHANGED <<lock, inited, mode, loop, aborted, queue, stage>>
        BY <1>6 DEF Register, Busy, task
    <2>2. \/ Phase = "init_wifi" /\ Phase' = "init_ip" /\ handlers' = handlers \cup {"wifi"}
          \/ Phase = "init_ip" /\ Phase' = "init_start" /\ handlers' = handlers \cup {"ip"}
          \/ Phase = "deinit_wifi" /\ Phase' = "deinit_ip" /\ handlers' = handlers \ {"wifi"}
          \/ Phase = "deinit_ip" /\ Phase' = "deinit_stop" /\ handlers' = handlers \ {"ip"}
        BY <1>2, <1>6, <2>1 DEF Register, Unregistered
    <2> QED
        BY <2>1, <2>2 DEF PhaseInv, Phases, Labels, Deiniting, Initing
<1>7. ASSUME NEW t \in Threads, StartStop(t) PROVE PhaseInv'
    <2>1. UNCHANGED <<lock, inited, loop, handlers, aborted, queue, stage>>
        BY <1>7 DEF StartStop, task
    <2>2. \/ Phase = "init_start" /\ Phase' = "init_done" /\ mode' = "STA"
          \/ Phase = "deinit_stop" /\ Phase' = "deinit_done" /\ mode' = "off"
        BY <1>2, <1>7, <2>1 DEF StartStop
    <2> QED
        BY <2>1, <2>2 DEF PhaseInv, Phases, Labels, Deiniting, Initing
<1>8. ASSUME NEW t \in Threads, Done(t) PROVE PhaseInv'
    <2>1. /\ lock' = Nobody /\ UNCHANGED <<driver, queue, stage>>
          /\ \/ pc[t] = "init_done" /\ inited' = TRUE
             \/ pc[t] = "deinit_done" /\ inited' = FALSE
        BY <1>8 DEF Done, Unlocked, Go, task
    <2>2. lock = t /\ Phase = pc[t]
        BY <1>1, <2>1 DEF Phase
    <2>3. Phase' = IF inited' THEN "up" ELSE "down"
        BY <2>1 DEF Phase
    <2> QED
        BY <2>1, <2>2, <2>3 DEF PhaseInv, driver, Phases, Labels, Deiniting, Initing
<1>9. ASSUME NEW t \in Threads \cup {EventTask}, Call(t) PROVE PhaseInv'
    <2>1. /\ UNCHANGED <<user, loop, handlers, aborted, queue, stage>>
          /\ mode' # "off" <=> mode # "off"
        BY <1>9 DEF Call, Connect, ApStart, ApStop, ModeCall, WithAp, WithSta
    <2> QED
        BY <1>3, <2>1 DEF PhaseInv
<1>10. ASSUME Dispatch PROVE PhaseInv'
    <2>1. /\ queue # <<>> /\ stage = "idle" /\ queue' = Tail(queue)
          /\ aborted' = (Base(Head(queue)) \in handlers /\ Head(queue) = "scan_done" /\ mode = "off")
          /\ stage' # "idle" => Base(Head(queue)) \in handlers
          /\ UNCHANGED <<user, mode, loop, handlers>>
        BY <1>10 DEF Dispatch
    <2>2. loop /\ Phase \notin Initing
        BY <2>1 DEF PhaseInv
    <2>3. Base(Head(queue)) \in handlers =>
              /\ Phase \in {"init_done", "up", "deinit_wifi", "deinit_ip"}
              /\ mode # "off"
        BY <2>2 DEF PhaseInv, Base, Initing
    <2>4. ~aborted'
        BY <2>1, <2>3
    <2> QED
        BY <1>3, <2>1, <2>2, <2>3, <2>4 DEF PhaseInv, Initing
<1>11. ASSUME NEW e \in Events, Post(e) PROVE PhaseInv'
    <2>1. mode # "off" /\ UNCHANGED <<user, mode, loop, handlers, aborted, stage>>
        BY <1>11 DEF Post, task
    <2>2. loop /\ Phase \notin Initing
        BY <2>1 DEF PhaseInv, Initing
    <2> QED
        BY <1>3, <2>1, <2>2 DEF PhaseInv
<1>12. ASSUME Combine PROVE PhaseInv'
    <2>1. /\ UNCHANGED <<user, loop, handlers, aborted, queue, stage>>
          /\ mode' # "off" /\ mode # "off"
        BY <1>12 DEF Combine, task
    <2> QED
        BY <1>3, <2>1 DEF PhaseInv
\* The walks begin after a handler has begun.
<1>13. ASSUME UNCHANGED <<user, mode, loop, handlers, aborted, queue>>,
              stage' = stage \/ stage # "idle"
       PROVE  PhaseInv'
    BY <1>3, <1>13 DEF PhaseInv
<1>14. \/ \E t \in Threads : Enter(t) \/ InitSetup(t) \/ Register(t) \/ StartStop(t) \/ Done(t)
       \/ \E t \in Threads \cup {EventTask} : Call(t)
       \/ Dispatch \/ (\E e \in Events : Post(e)) \/ Combine
       \/ /\ UNCHANGED <<user, mode, loop, handlers, aborted, queue>>
          /\ stage' = stage \/ stage # "idle"
    BY DEF Next, vars, driver, task, Bring, Pass, Scan, Subscribe, Unsubscribe, EnterPass,
           LeavePass, ListenerCalls, ListenerReturns
<1> QED
    BY <1>4, <1>5, <1>6, <1>7, <1>8, <1>9, <1>10, <1>11, <1>12, <1>13, <1>14

\* QuietWhenDown, when the program brings the station up once, as the test program does:
\* after deinit() no handler runs and none is registered, so that no event that is still in
\* the queue asks a driver that is gone; no ESP_ERROR_CHECK of the handlers fails.
THEOREM QuietAfterDeinit ==
    ASSUME "init_once" \in Contract
    PROVE  Spec => []QuietWhenDown
<1>1. Init => TypeOK /\ WalkInv /\ PhaseInv
    <2>1. Init => PhaseInv
        BY OwnersAssumption DEF Init, PhaseInv, Phase, Phases, Deiniting, Initing
    <2> QED
        BY <2>1, InitTypes
<1>2. TypeOK /\ WalkInv /\ PhaseInv /\ [Next]_vars => (TypeOK /\ WalkInv /\ PhaseInv)'
    BY TypeStep, PhaseStep
<1>3. TypeOK /\ PhaseInv => QuietWhenDown
    <2> SUFFICES ASSUME TypeOK, PhaseInv
                 PROVE  /\ ~inited /\ lock = Nobody =>
                              stage = "idle" /\ handlers = {} /\ mode = "off"
                        /\ ~aborted
        BY DEF QuietWhenDown
    <2>1. ASSUME ~inited, lock = Nobody PROVE stage = "idle" /\ handlers = {} /\ mode = "off"
        <3>1. Phase = "down"
            BY <2>1 DEF Phase
        <3> QED
            BY <3>1 DEF PhaseInv, TypeOK
    <2> QED
        BY <2>1 DEF PhaseInv
<1> QED
    BY <1>1, <1>2, <1>3, PTL DEF Spec
===============================================================================
