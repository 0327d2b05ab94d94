--------------------------- MODULE RunnableProofs ---------------------------
(***************************************************************************)
(* What holds of Runnable for every set of callers, every heap, any number *)
(* of starts and every body.  Types need no promise of the callers; the    *)
(* rest needs "reap_first", and the handshake of join() "entered" too.     *)
(***************************************************************************)
EXTENDS Runnable, TLAPS

Reaped == "reap_first" \in Contract

\* The labels of start() before the task exists, and those of the destructor.
PreTask    == StartLabels \ {"publish"}
DtorLabels == {"dtor_take", "dtor_reap", "dtor_clean"}

\* Only one caller is ever inside, and the handle is in tid_ only while none is, but
\* for the destructor.
Turns ==
    /\ \A c, d \in Callers : pc[c] # "idle" /\ pc[d] # "idle" => c = d
    /\ \A c \in Callers : pc[c] # "idle" => tid = Null \/ pc[c] \in {"dtor_take", "dtor_reap"}
    /\ \A c \in Callers : pc[c] \in DtorLabels => life # "alive"

\* A task that exists stands on the two blocks the object names, and its handle is in
\* tid_ or in the hands of the caller inside.  What is in either is a task.
Owned ==
    /\ \A a \in Addrs : Exists(a) =>
          /\ thread = a /\ base[a] = stack
          /\ tid = a \/ \E c \in Callers : Holds(c) /\ h[c] = a
    /\ \A c \in Callers : Holds(c) => h[c] \in Addrs /\ Exists(h[c])
    /\ tid # Null => Exists(tid)
    /\ \A a \in Addrs : task[a] # "corrupt"

\* thread_ names a live TCB, and then stack_ a live stack; each live block has its name.
Heap ==
    /\ thread # Null => tcbs[thread] = "live" /\ stack # Null /\ stacks[stack] = "live"
    /\ NoLeak
    /\ TcbsFreedOnce

\* Where a caller is says what the object has.
Has(c) ==
    /\ pc[c] \in PreTask \cup {"cancel_store", "dtor_clean"} => \A a \in Addrs : ~Exists(a)
    /\ pc[c] = "stack" => stack = Null /\ thread = Null
    /\ pc[c] = "tcb" => thread = Null /\ stack # Null /\ stacks[stack] = "live"
    /\ pc[c] \in {"create", "unwind"} => thread # Null

AllHave == \A c \in Callers : Has(c)

IInv == TypeOK /\ Turns /\ Owned /\ Heap /\ AllHave

\* How far a task is, the state says, but for a join that comes after the task's last store.
Abreast(a) ==
    \/ task[a] = "ready" /\ state = "Starting"
    \/ task[a] \in {"body", "returned"} /\ state \in {"Running", "Stopping"}
    \/ task[a] = "parked" /\ state = "Idle"
    \/ task[a] = "parked" /\ state = "Stopping" /\ \E c \in Callers : pc[c] = "join_wait"

\* The handshake between start(), the worker and join(): nobody takes the state away from
\* a start, and what is waited for has entered, so that it is the last store that ends the wait.
Shakes(c) ==
    /\ pc[c] \in PreTask => state = "Starting"
    /\ pc[c] = "join_store" => task[h[c]] # "ready"
    /\ pc[c] = "dtor_take" => tid # Null /\ task[tid] # "ready"
    /\ pc[c] = "join_wait" =>
         /\ task[h[c]] # "ready"
         /\ state = "Stopping" \/ (state = "Idle" /\ task[h[c]] = "parked")
    /\ pc[c] = "join_delete" => state = "Idle" /\ task[h[c]] = "parked"
    /\ pc[c] \in {"dtor_reap", "dtor_clean"} => state = "Idle"

Handshake ==
    /\ \A a \in Addrs : Exists(a) => Abreast(a)
    /\ \A c \in Callers : Shakes(c)

TurnInv == IInv /\ Handshake /\ ReapedMeansReady

-----------------------------------------------------------------------------
USE CallersAssumption, AddrsAssumption

\* Freeing, deleting and making tasks stay within the types, and change one entry only.
LEMMA FreedEffect ==
    ASSUME NEW blocks \in [Addrs -> Blocks], NEW p
    PROVE  /\ Freed(blocks, p) \in [Addrs -> Blocks]
           /\ \A a \in Addrs : a # p => Freed(blocks, p)[a] = blocks[a]
           /\ p \in Addrs => Freed(blocks, p)[p] = IF blocks[p] = "live" THEN "free" ELSE "corrupt"
    BY DEF Freed, Blocks

LEMMA DeletedEffect ==
    ASSUME NEW p, task \in [Addrs -> TaskStates]
    PROVE  /\ Deleted(task, p) \in [Addrs -> TaskStates]
           /\ \A a \in Addrs : a # p => Deleted(task, p)[a] = task[a]
           /\ p \in Addrs /\ Exists(p) => Deleted(task, p)[p] = "none"
    BY DEF Deleted, TaskStates, Exists

LEMMA CleanupEffect ==
    ASSUME TypeOK, Cleanup
    PROVE  /\ stack' = Null /\ thread' = Null
           /\ stacks' = Freed(stacks, stack) /\ tcbs' = Freed(tcbs, thread)
           /\ stacks' \in [Addrs -> Blocks] /\ tcbs' \in [Addrs -> Blocks]
    BY FreedEffect DEF Cleanup, PointerAfterFree, TcbsAfterCleanup, TypeOK

\* Every step keeps every variable in its type, whoever takes it.
LEMMA TypeStep == TypeOK /\ [Next]_vars => TypeOK'
<1> SUFFICES ASSUME TypeOK, [Next]_vars PROVE TypeOK'
    OBVIOUS
<1> USE DEF TypeOK, Ptrs, States, Labels, StartLabels, JoinLabels, Goto, heap, kernel
<1>1. ASSUME NEW c \in Callers, Start(c) PROVE TypeOK'
    BY <1>1 DEF Start, Begin, MayStart
<1>2. ASSUME NEW c \in Callers, Stop(c) PROVE TypeOK'
    BY <1>2 DEF Stop, Begin, MayStop
<1>3. ASSUME NEW c \in Callers, Join(c) PROVE TypeOK'
    BY <1>3 DEF Join, Begin, MayJoin, TakeHandle, HandleAfterExchange
<1>4. ASSUME NEW c \in Callers, Cancel(c) PROVE TypeOK'
    BY <1>4 DEF Cancel, Begin, TakeHandle, HandleAfterExchange
<1>5. ASSUME NEW c \in Callers, Destroy(c) PROVE TypeOK'
    BY <1>5 DEF Destroy, Begin, MayJoin, Quiet
<1>6. ASSUME NEW c \in Callers, StartClean(c) PROVE TypeOK'
    BY <1>6, CleanupEffect DEF StartClean
<1>7. ASSUME NEW c \in Callers, StartStack(c) PROVE TypeOK'
    BY <1>7 DEF StartStack, FreeIn, Blocks
<1>8. ASSUME NEW c \in Callers, StartTcb(c) PROVE TypeOK'
    <2>1. Freed(stacks, stack) \in [Addrs -> Blocks]
        BY FreedEffect
    <2>2. thread' \in Ptrs /\ tcbs' \in [Addrs -> Blocks] /\ stacks' \in [Addrs -> Blocks]
        BY <1>8, <2>1 DEF StartTcb, FreeIn, Blocks
    <2>3. pc' \in [Callers -> Labels]
        BY <1>8 DEF StartTcb
    <2> QED
        BY <1>8, <2>2, <2>3 DEF StartTcb
<1>9. ASSUME NEW c \in Callers, StartCreate(c) PROVE TypeOK'
    BY <1>9 DEF StartCreate, Created, TaskStates
<1>10. ASSUME NEW c \in Callers, StartPublish(c) PROVE TypeOK'
    BY <1>10 DEF StartPublish
<1>11. ASSUME NEW c \in Callers, StartUnwind(c) PROVE TypeOK'
    BY <1>11, CleanupEffect DEF StartUnwind
<1>12. ASSUME NEW c \in Callers, StartGiveUp(c) PROVE TypeOK'
    BY <1>12 DEF StartGiveUp, StateAfterGiveUp
<1>13. ASSUME NEW c \in Callers, JoinStore(c) PROVE TypeOK'
    BY <1>13 DEF JoinStore
<1>14. ASSUME NEW c \in Callers, JoinWait(c) PROVE TypeOK'
    BY <1>14 DEF JoinWait, StillStopping
<1>15. ASSUME NEW c \in Callers, JoinDelete(c) PROVE TypeOK'
    BY <1>15, DeletedEffect DEF JoinDelete, AfterJoinDelete
<1>16. ASSUME NEW c \in Callers, CancelDelete(c) PROVE TypeOK'
    BY <1>16, DeletedEffect DEF CancelDelete, AfterCancelDelete
<1>17. ASSUME NEW c \in Callers, CancelStore(c) PROVE TypeOK'
    BY <1>17 DEF CancelStore
<1>18. ASSUME NEW c \in Callers, DestroyTake(c) PROVE TypeOK'
    BY <1>18 DEF DestroyTake, TakeHandle, HandleAfterExchange
<1>19. ASSUME NEW c \in Callers, DestroyReap(c) PROVE TypeOK'
    BY <1>19, DeletedEffect DEF DestroyReap
<1>20. ASSUME NEW c \in Callers, DestroyClean(c) PROVE TypeOK'
    BY <1>20, CleanupEffect DEF DestroyClean
<1>21. ASSUME NEW a \in Addrs, WorkerEnter(a) PROVE TypeOK'
    BY <1>21 DEF WorkerEnter, TaskStates
<1>22. ASSUME NEW a \in Addrs, WorkerReturn(a) PROVE TypeOK'
    BY <1>22 DEF WorkerReturn, TaskStates
<1>23. ASSUME NEW a \in Addrs, WorkerFinish(a) PROVE TypeOK'
    BY <1>23 DEF WorkerFinish, StateAfterRun, TaskStates
<1>24. CASE UNCHANGED vars
    BY <1>24 DEF vars
<1> QED
    BY <1>1, <1>2, <1>3, <1>4, <1>5, <1>6, <1>7, <1>8, <1>9, <1>10, <1>11, <1>12,
       <1>13, <1>14, <1>15, <1>16, <1>17, <1>18, <1>19, <1>20, <1>21, <1>22, <1>23, <1>24
       DEF Next, Inside, Worker

-----------------------------------------------------------------------------
Moved(c, to) == pc' = [pc EXCEPT ![c] = to]

LEMMA MoveEffect ==
    ASSUME TypeOK, NEW c \in Callers, NEW to, Moved(c, to)
    PROVE  pc'[c] = to /\ \A d \in Callers \ {c} : pc'[d] = pc[d]
    BY DEF TypeOK, Moved

\* The caller inside goes on, or leaves.
LEMMA MoveTurns ==
    ASSUME TypeOK, Turns, NEW c \in Callers, NEW to, Moved(c, to), pc[c] # "idle",
           to = "idle" \/ tid' = Null \/ (tid' = tid /\ pc[c] \notin {"dtor_take", "dtor_reap"}),
           to \in DtorLabels => life' # "alive"
    PROVE  Turns'
<1>1. pc'[c] = to /\ \A d \in Callers \ {c} : pc'[d] = pc[d] /\ pc[d] = "idle"
    BY MoveEffect DEF Turns
<1> QED
    BY <1>1 DEF Turns, DtorLabels

\* A caller comes in when nobody else is inside.
LEMMA EnterTurns ==
    ASSUME TypeOK, Turns, NEW c \in Callers, NEW to, Moved(c, to),
           \A d \in Callers : pc[d] = "idle",
           tid' = Null \/ to \in {"dtor_take", "dtor_reap"},
           to \in DtorLabels => life' # "alive"
    PROVE  Turns'
<1>1. pc'[c] = to /\ \A d \in Callers \ {c} : pc'[d] = "idle"
    BY MoveEffect
<1> QED
    BY <1>1 DEF Turns, DtorLabels

\* While the handle is in tid_ and the object is alive, nobody is inside.
LEMMA HandleMeansAlone ==
    ASSUME TypeOK, Turns, life = "alive", tid # Null
    PROVE  \A d \in Callers : pc[d] = "idle"
    BY DEF Turns, DtorLabels

\* Start, join, cancel and the destructor come in alone.
LEMMA EnterAlone ==
    ASSUME Reaped, TypeOK, Turns, NEW c \in Callers, Start(c) \/ Join(c) \/ Cancel(c) \/ Destroy(c)
    PROVE  \A d \in Callers : pc[d] = "idle"
<1>1. CASE Start(c)
    BY <1>1 DEF Start, MayStart, Reaped
<1>2. CASE Join(c) \/ Cancel(c)
    BY <1>2, HandleMeansAlone DEF Join, Cancel, Begin
<1>3. CASE Destroy(c)
    BY <1>3 DEF Destroy, Begin, Quiet
<1> QED
    BY <1>1, <1>2, <1>3

\* Steps that only change the heap, while there is no task.
LEMMA OwnedNothing ==
    ASSUME TypeOK, Turns, Owned, NEW c \in Callers, NEW to, Moved(c, to), pc[c] # "idle",
           \A a \in Addrs : ~Exists(a),
           to \notin JoinLabels \cup {"publish", "cancel_delete"},
           UNCHANGED kernel, tid' \in {tid, Null}
    PROVE  Owned' /\ tid' = Null /\ \A a \in Addrs : ~Exists(a)'
<1>1. pc'[c] = to /\ \A d \in Callers \ {c} : pc'[d] = "idle"
    BY MoveEffect DEF Turns
<1>2. \A d \in Callers : ~Holds(d)'
    BY <1>1 DEF Holds, JoinLabels
<1>3. task' = task /\ \A a : Exists(a)' <=> Exists(a)
    BY DEF kernel, Exists
<1>4. tid = Null
    BY DEF Owned, TypeOK, Ptrs
<1> QED
    BY <1>2, <1>3, <1>4 DEF Owned

LEMMA CleanupHeap == ASSUME TypeOK, Heap, Cleanup PROVE Heap'
<1>1. stack' = Null /\ thread' = Null /\ stacks' = Freed(stacks, stack) /\ tcbs' = Freed(tcbs, thread)
    BY CleanupEffect
<1>2. stacks \in [Addrs -> Blocks] /\ tcbs \in [Addrs -> Blocks]
    BY DEF TypeOK
<1>3. \A a \in Addrs : stacks'[a] # "live"
    <2> SUFFICES ASSUME NEW a \in Addrs PROVE stacks'[a] # "live"
        OBVIOUS
    <2>1. CASE a = stack
        BY <1>1, <1>2, <2>1, FreedEffect
    <2>2. CASE a # stack
        BY <1>1, <1>2, <2>2, FreedEffect DEF Heap, NoLeak
    <2> QED
        BY <2>1, <2>2
<1>4. \A a \in Addrs : tcbs'[a] \notin {"live", "corrupt"}
    <2> SUFFICES ASSUME NEW a \in Addrs PROVE tcbs'[a] \notin {"live", "corrupt"}
        OBVIOUS
    <2>1. CASE a = thread
        BY <1>1, <1>2, <2>1, FreedEffect DEF Heap
    <2>2. CASE a # thread
        BY <1>1, <1>2, <2>2, FreedEffect DEF Heap, NoLeak, TcbsFreedOnce
    <2> QED
        BY <2>1, <2>2
<1> QED
    BY <1>1, <1>3, <1>4 DEF Heap, NoLeak, TcbsFreedOnce

LEMMA CleanStep ==
    ASSUME IInv, NEW c \in Callers, StartClean(c) \/ StartUnwind(c) \/ DestroyClean(c)
    PROVE  (Turns /\ Owned /\ Heap /\ AllHave)'
<1>1. PICK to \in {"stack", "give_up", "idle"} : Moved(c, to)
    BY DEF StartClean, StartUnwind, DestroyClean, Goto, Moved
<1>2. pc[c] \in {"clean", "unwind", "dtor_clean"} /\ UNCHANGED <<tid, kernel, h>> /\ Cleanup /\ TypeOK
    BY DEF StartClean, StartUnwind, DestroyClean, IInv
<1>3. \A a \in Addrs : ~Exists(a)
    BY <1>2 DEF IInv, AllHave, Has, PreTask, StartLabels
<1>4. Turns'
    BY <1>1, <1>2, MoveTurns DEF IInv, DtorLabels
<1>5. Owned' /\ \A a \in Addrs : ~Exists(a)'
    BY <1>1, <1>2, <1>3, OwnedNothing DEF IInv, JoinLabels
<1>6. Heap'
    BY <1>2, CleanupHeap DEF IInv
<1>7. AllHave'
    BY <1>1, <1>2, <1>5, CleanupEffect, MoveEffect DEF IInv, Turns, AllHave, Has, PreTask, StartLabels
<1> QED
    BY <1>4, <1>5, <1>6, <1>7

LEMMA StartStackStep == ASSUME IInv, NEW c \in Callers, StartStack(c) PROVE (Turns /\ Owned /\ Heap /\ AllHave)'
<1>1. pc[c] = "stack" /\ UNCHANGED <<tid, thread, tcbs, kernel, h, life>> /\ TypeOK
    BY DEF StartStack, IInv
<1>2. stack = Null /\ thread = Null /\ \A a \in Addrs : ~Exists(a)
    BY <1>1 DEF IInv, AllHave, Has, PreTask, StartLabels
<1>3. /\ \/ Moved(c, "tcb") /\ stack' \in Addrs /\ stacks' = [stacks EXCEPT ![stack'] = "live"]
         \/ Moved(c, "give_up") /\ stack' = Null /\ stacks' = stacks
      /\ stacks \in [Addrs -> Blocks]
    BY <1>1 DEF StartStack, Goto, Moved, FreeIn, TypeOK
<1>4. Turns'
    BY <1>1, <1>3, MoveTurns DEF IInv, DtorLabels
<1>5. Owned' /\ \A a \in Addrs : ~Exists(a)'
    BY <1>1, <1>2, <1>3, OwnedNothing DEF IInv, JoinLabels
<1>6. Heap'
    BY <1>1, <1>2, <1>3 DEF IInv, Heap, NoLeak, TcbsFreedOnce
<1>7. AllHave'
    BY <1>1, <1>2, <1>3, <1>5, MoveEffect DEF IInv, Turns, AllHave, Has, PreTask, StartLabels
<1> QED
    BY <1>4, <1>5, <1>6, <1>7

LEMMA StartTcbStep == ASSUME IInv, NEW c \in Callers, StartTcb(c) PROVE (Turns /\ Owned /\ Heap /\ AllHave)'
<1>1. pc[c] = "tcb" /\ UNCHANGED <<tid, stack, kernel, h, life>> /\ TypeOK
    BY DEF StartTcb, IInv
<1>2. thread = Null /\ stack \in Addrs /\ stacks[stack] = "live" /\ \A a \in Addrs : ~Exists(a)
    BY <1>1 DEF IInv, AllHave, Has, PreTask, StartLabels, TypeOK, Ptrs
<1>3. /\ \/ Moved(c, "create") /\ thread' \in Addrs /\ stacks' = stacks
            /\ tcbs' = [tcbs EXCEPT ![thread'] = "live"]
         \/ Moved(c, "give_up") /\ thread' = Null /\ stacks' = Freed(stacks, stack) /\ tcbs' = tcbs
      /\ stacks \in [Addrs -> Blocks] /\ tcbs \in [Addrs -> Blocks]
    BY <1>1 DEF StartTcb, Goto, Moved, FreeIn, TypeOK
<1>4. Turns'
    BY <1>1, <1>3, MoveTurns DEF IInv, DtorLabels
<1>5. Owned' /\ \A a \in Addrs : ~Exists(a)'
    BY <1>1, <1>2, <1>3, OwnedNothing DEF IInv, JoinLabels
<1>6. Heap'
    BY <1>1, <1>2, <1>3, FreedEffect DEF IInv, Heap, NoLeak, TcbsFreedOnce
<1>7. AllHave'
    BY <1>1, <1>2, <1>3, <1>5, MoveEffect DEF IInv, Turns, AllHave, Has, PreTask, StartLabels
<1> QED
    BY <1>4, <1>5, <1>6, <1>7

LEMMA StartCreateStep == ASSUME IInv, NEW c \in Callers, StartCreate(c) PROVE (Turns /\ Owned /\ Heap /\ AllHave)'
<1>1. pc[c] = "create" /\ UNCHANGED <<stack, thread, stacks, tcbs, life>> /\ TypeOK
    BY DEF StartCreate, IInv, heap
<1>2. thread \in Addrs /\ stack \in Addrs /\ tid = Null /\ \A a \in Addrs : ~Exists(a)
    BY <1>1 DEF IInv, Heap, Turns, AllHave, Has, PreTask, StartLabels, TypeOK, Ptrs
<1>3. Heap'
    BY <1>1 DEF IInv, Heap, NoLeak, TcbsFreedOnce
<1>4. CASE Moved(c, "unwind") /\ tid' = Null /\ UNCHANGED <<kernel, h>>
    <2>1. Turns'
        BY <1>1, <1>4, MoveTurns DEF IInv, DtorLabels
    <2>2. Owned' /\ \A a \in Addrs : ~Exists(a)'
        BY <1>1, <1>2, <1>4, OwnedNothing DEF IInv, JoinLabels
    <2>3. AllHave'
        BY <1>1, <1>2, <1>4, <2>2, MoveEffect DEF IInv, Turns, AllHave, Has, PreTask, StartLabels
    <2> QED
        BY <1>3, <2>1, <2>2, <2>3
<1>5. CASE Moved(c, "publish") /\ tid' = tid /\ task' = Created(task, thread)
           /\ base' = [base EXCEPT ![thread] = stack] /\ h' = [h EXCEPT ![c] = thread]
    <2>1. Turns'
        BY <1>1, <1>5, MoveTurns DEF IInv, DtorLabels
    <2>2. /\ task'[thread] = "ready" /\ base'[thread] = stack /\ h'[c] = thread
          /\ \A a \in Addrs \ {thread} : task'[a] = task[a]
        BY <1>1, <1>2, <1>5 DEF Created, TypeOK, TaskStates, Exists, IInv, Owned
    <2>3. pc'[c] = "publish" /\ \A d \in Callers \ {c} : pc'[d] = "idle"
        BY <1>1, <1>5, MoveEffect DEF IInv, Turns
    <2>4. Owned'
        BY <1>1, <1>2, <1>5, <2>2, <2>3 DEF IInv, Owned, Exists, Holds, JoinLabels
    <2>5. AllHave'
        BY <2>3 DEF AllHave, Has, PreTask, StartLabels
    <2> QED
        BY <1>3, <2>1, <2>4, <2>5
<1> QED
    BY <1>4, <1>5 DEF StartCreate, Goto, Moved

LEMMA StartPublishStep == ASSUME IInv, NEW c \in Callers, StartPublish(c) PROVE (Turns /\ Owned /\ Heap /\ AllHave)'
<1>1. /\ pc[c] = "publish" /\ Moved(c, "idle") /\ tid' = h[c]
      /\ UNCHANGED <<stack, thread, stacks, tcbs, task, base>> /\ TypeOK
    BY DEF StartPublish, IInv, heap, kernel, Goto, Moved
<1>2. \A d \in Callers : pc'[d] = "idle" /\ (d # c => pc[d] = "idle")
    BY <1>1, MoveEffect DEF IInv, Turns
<1>3. Turns' /\ AllHave'
    BY <1>2 DEF Turns, AllHave, Has, PreTask, StartLabels, DtorLabels
<1>4. \A d \in Callers : ~Holds(d)' /\ (Holds(d) => d = c)
    BY <1>2 DEF Holds, JoinLabels
<1>5. Owned'
    BY <1>1, <1>4 DEF IInv, Owned, Exists, Holds
<1> QED
    BY <1>1, <1>3, <1>5 DEF IInv, Heap, NoLeak, TcbsFreedOnce

LEMMA StartGiveUpStep == ASSUME IInv, NEW c \in Callers, StartGiveUp(c) PROVE (Turns /\ Owned /\ Heap /\ AllHave)'
<1>1. /\ pc[c] = "give_up" /\ Moved(c, "idle")
      /\ UNCHANGED <<tid, stack, thread, stacks, tcbs, kernel>> /\ TypeOK
    BY DEF StartGiveUp, IInv, heap, kernel, Goto, Moved
<1>2. \A a \in Addrs : ~Exists(a)
    BY <1>1 DEF IInv, AllHave, Has, PreTask, StartLabels
<1>3. \A d \in Callers : pc'[d] = "idle"
    BY <1>1, MoveEffect DEF IInv, Turns
<1>4. Turns' /\ AllHave'
    BY <1>3 DEF Turns, AllHave, Has, PreTask, StartLabels, DtorLabels
<1>5. Owned'
    BY <1>1, <1>2, OwnedNothing DEF IInv, JoinLabels
<1> QED
    BY <1>1, <1>4, <1>5 DEF IInv, Heap, NoLeak, TcbsFreedOnce

\* A caller comes in and changes neither the heap nor the kernel.
LEMMA EnterStep ==
    ASSUME Reaped, IInv, NEW c \in Callers, Start(c) \/ Join(c) \/ Cancel(c) \/ Destroy(c)
    PROVE  (Turns /\ Owned /\ Heap /\ AllHave)'
<1> USE DEF TakeHandle, HandleAfterExchange, Goto, Moved, heap, kernel
<1>1. UNCHANGED <<stack, thread, stacks, tcbs, task, base>> /\ TypeOK
    BY DEF Start, Join, Cancel, Destroy, IInv
<1>2. \A d \in Callers : pc[d] = "idle" /\ ~Holds(d)
    BY EnterAlone DEF IInv, Holds, JoinLabels
<1>3. Heap'
    BY <1>1 DEF IInv, Heap, NoLeak, TcbsFreedOnce
<1>4. \/ Moved(c, "clean") /\ tid = Null /\ tid' = Null /\ h' = h
      \/ /\ Moved(c, "join_store") \/ Moved(c, "cancel_delete")
         /\ tid # Null /\ tid' = Null /\ h' = [h EXCEPT ![c] = tid]
      \/ /\ Moved(c, "dtor_take") \/ Moved(c, "dtor_reap")
         /\ tid' = tid /\ h' = h /\ life' = "dying"
    BY DEF Start, Join, Cancel, Destroy, MayStart, Reaped
<1>5. Turns'
    BY <1>1, <1>2, <1>4, EnterTurns DEF IInv, DtorLabels
<1>6. \E to : /\ pc'[c] = to /\ \A d \in Callers \ {c} : pc'[d] = "idle"
              /\ \/ to = "clean" /\ tid = Null /\ tid' = Null /\ h' = h
                 \/ to \in {"join_store", "cancel_delete"} /\ tid # Null /\ tid' = Null /\ h'[c] = tid
                 \/ to \in {"dtor_take", "dtor_reap"} /\ tid' = tid /\ h' = h
    BY <1>1, <1>2, <1>4, MoveEffect DEF TypeOK
<1>7. Owned'
    <2>1. \A a : Exists(a)' <=> Exists(a)
        BY <1>1 DEF Exists
    <2>2. CASE Holds(c)'
        <3>1. tid # Null /\ tid' = Null /\ h'[c] = tid /\ \A d \in Callers : Holds(d)' => d = c
            BY <1>6, <2>2 DEF Holds, JoinLabels
        <3> QED
            BY <1>1, <1>2, <2>1, <2>2, <3>1 DEF IInv, Owned, TypeOK, Ptrs
    <2>3. CASE ~Holds(c)'
        <3>1. tid' = tid /\ \A d \in Callers : ~Holds(d)'
            BY <1>6, <2>3 DEF Holds, JoinLabels
        <3> QED
            BY <1>1, <1>2, <2>1, <3>1 DEF IInv, Owned
    <2> QED
        BY <2>2, <2>3
<1>8. AllHave'
    <2>1. tid = Null => \A a \in Addrs : ~Exists(a)
        BY <1>2 DEF IInv, Owned
    <2>2. \A a : Exists(a)' <=> Exists(a)
        BY <1>1 DEF Exists
    <2> QED
        BY <1>6, <2>1, <2>2 DEF AllHave, Has, PreTask, StartLabels
<1> QED
    BY <1>3, <1>5, <1>7, <1>8

\* The caller that took the handle goes on with it.
LEMMA JoinGoesOn ==
    ASSUME IInv, NEW c \in Callers, JoinStore(c) \/ JoinWait(c) \/ CancelStore(c)
    PROVE  (Turns /\ Owned /\ Heap /\ AllHave)'
<1>1. UNCHANGED <<tid, stack, thread, stacks, tcbs, task, base, h, life>> /\ TypeOK
      /\ \/ pc[c] = "join_store" /\ Moved(c, "join_wait")
         \/ pc[c] = "join_wait" /\ Moved(c, "join_delete")
         \/ pc[c] = "cancel_store" /\ Moved(c, "idle")
    BY DEF JoinStore, JoinWait, CancelStore, IInv, heap, kernel, Goto, Moved
<1>2. Turns'
    BY <1>1, MoveTurns DEF IInv, DtorLabels
<1>3. /\ \A d \in Callers : (Holds(d)' <=> Holds(d)) /\ (d # c => pc'[d] = "idle")
      /\ pc'[c] \in {"join_wait", "join_delete", "idle"}
    BY <1>1, MoveEffect DEF Holds, JoinLabels, IInv, Turns
<1>4. Owned'
    BY <1>1, <1>3 DEF IInv, Owned, Exists
<1>5. AllHave'
    BY <1>3 DEF AllHave, Has, PreTask, StartLabels
<1> QED
    BY <1>1, <1>2, <1>4, <1>5 DEF IInv, Heap, NoLeak, TcbsFreedOnce

\* The task is deleted, and then there is none.
LEMMA DeleteStep ==
    ASSUME IInv, NEW c \in Callers, NEW p \in Ptrs, NEW to, Moved(c, to), pc[c] # "idle",
           \/ Holds(c) /\ p = h[c] /\ pc[c] # "publish" /\ tid' = tid
           \/ pc[c] = "dtor_reap" /\ p = tid /\ tid' = Null,
           to \in {"idle", "cancel_store", "dtor_reap", "dtor_clean"},
           to \in DtorLabels => life' # "alive",
           task' = Deleted(task, p), UNCHANGED <<stack, thread, stacks, tcbs, base>>
    PROVE  (Turns /\ Owned /\ Heap /\ AllHave)' /\ tid' = Null /\ \A a \in Addrs : ~Exists(a)'
<1>1. TypeOK /\ pc[c] \notin {"dtor_take"}
    BY DEF IInv, Holds, JoinLabels
<1>2. tid' = Null /\ (Holds(c) => tid = Null) /\ (pc[c] = "dtor_reap" => ~Holds(c))
    BY DEF IInv, Turns, Holds, JoinLabels
<1>3. Turns'
    BY <1>1, <1>2, MoveTurns DEF IInv
<1>4. pc'[c] = to /\ \A d \in Callers \ {c} : pc'[d] = "idle" /\ pc[d] = "idle"
    BY <1>1, MoveEffect DEF IInv, Turns
<1>5. \A d \in Callers : ~Holds(d)' /\ (Holds(d) => d = c)
    BY <1>4 DEF Holds, JoinLabels
<1>6. \A a \in Addrs : Exists(a) => a = p
    BY <1>2, <1>5 DEF IInv, Owned
<1>7. p \in Addrs => Exists(p)
    BY <1>2 DEF IInv, Owned, Ptrs
<1>8. /\ \A a \in Addrs : a # p => task'[a] = task[a]
      /\ p \in Addrs => task'[p] = "none"
    BY <1>1, <1>7, DeletedEffect DEF TypeOK
<1>9. \A a \in Addrs : ~Exists(a)' /\ task'[a] # "corrupt"
    BY <1>6, <1>8 DEF Exists, IInv, Owned
<1>10. Owned'
    BY <1>2, <1>5, <1>9 DEF Owned
<1>11. AllHave'
    BY <1>4, <1>9 DEF AllHave, Has, PreTask, StartLabels
<1> QED
    BY <1>2, <1>3, <1>9, <1>10, <1>11 DEF IInv, Heap, NoLeak, TcbsFreedOnce

LEMMA ReapStep ==
    ASSUME IInv, NEW c \in Callers, JoinDelete(c) \/ CancelDelete(c) \/ DestroyReap(c)
    PROVE  (Turns /\ Owned /\ Heap /\ AllHave)' /\ tid' = Null /\ \A a \in Addrs : ~Exists(a)'
<1> USE DEF heap, Goto, Moved
<1>1. TypeOK /\ h[c] \in Ptrs /\ tid \in Ptrs
    BY DEF IInv, TypeOK
<1>2. CASE JoinDelete(c)
    <2>1. \E to \in {"idle", "dtor_reap"} : Moved(c, to) /\ (to = "dtor_reap" => life' # "alive")
        BY <1>2 DEF JoinDelete
    <2>2. /\ pc[c] = "join_delete" /\ Holds(c) /\ task' = Deleted(task, h[c]) /\ tid' = tid
          /\ UNCHANGED <<stack, thread, stacks, tcbs, base>>
        BY <1>2 DEF JoinDelete, AfterJoinDelete, Holds, JoinLabels
    <2> QED
        BY <1>1, <2>1, <2>2, DeleteStep DEF DtorLabels
<1>3. CASE CancelDelete(c)
    <2>1. /\ pc[c] = "cancel_delete" /\ Holds(c) /\ task' = Deleted(task, h[c]) /\ tid' = tid
          /\ Moved(c, "cancel_store") /\ UNCHANGED <<stack, thread, stacks, tcbs, base>>
        BY <1>3 DEF CancelDelete, AfterCancelDelete, Holds
    <2> QED
        BY <1>1, <2>1, DeleteStep DEF DtorLabels
<1>4. CASE DestroyReap(c)
    <2>1. /\ pc[c] = "dtor_reap" /\ task' = Deleted(task, tid) /\ tid' = Null /\ life' # "alive"
          /\ Moved(c, "dtor_clean") /\ UNCHANGED <<stack, thread, stacks, tcbs, base>>
        BY <1>4 DEF DestroyReap, IInv, Turns, DtorLabels
    <2> QED
        BY <1>1, <2>1, DeleteStep DEF DtorLabels
<1> QED
    BY <1>2, <1>3, <1>4

LEMMA DestroyTakeStep == ASSUME IInv, NEW c \in Callers, DestroyTake(c) PROVE (Turns /\ Owned /\ Heap /\ AllHave)'
<1>1. /\ pc[c] = "dtor_take" /\ tid' = Null /\ h' = [h EXCEPT ![c] = tid] /\ life' = life /\ life # "alive"
      /\ \/ tid = Null /\ Moved(c, "dtor_reap")
         \/ tid # Null /\ Moved(c, "join_store")
      /\ UNCHANGED <<stack, thread, stacks, tcbs, task, base>> /\ TypeOK
    BY DEF DestroyTake, TakeHandle, HandleAfterExchange, Goto, Moved, heap, kernel, IInv, Turns, DtorLabels
<1>2. Turns'
    BY <1>1, MoveTurns DEF IInv
<1>3. /\ pc'[c] = IF tid = Null THEN "dtor_reap" ELSE "join_store"
      /\ h'[c] = tid /\ \A d \in Callers \ {c} : pc'[d] = "idle" /\ pc[d] = "idle"
    BY <1>1, MoveEffect DEF IInv, Turns, TypeOK
<1>4. \A d \in Callers : ~Holds(d) /\ (Holds(d)' <=> d = c /\ tid # Null)
    BY <1>1, <1>3 DEF Holds, JoinLabels
<1>5. Owned'
    BY <1>1, <1>3, <1>4 DEF IInv, Owned, Exists, TypeOK, Ptrs
<1>6. AllHave'
    BY <1>3 DEF AllHave, Has, PreTask, StartLabels
<1> QED
    BY <1>1, <1>2, <1>5, <1>6 DEF IInv, Heap, NoLeak, TcbsFreedOnce

\* The worker and stop() change neither hands nor memory.
LEMMA WorkerStep ==
    ASSUME IInv, (\E a \in Addrs : Worker(a)) \/ (\E c \in Callers : Stop(c))
    PROVE  (Turns /\ Owned /\ Heap /\ AllHave)'
<1>1. UNCHANGED <<tid, stack, thread, stacks, tcbs, base, pc, h, life>> /\ TypeOK
    BY DEF Worker, WorkerEnter, WorkerReturn, WorkerFinish, Stop, IInv, heap, kernel
<1>2. /\ \A a \in Addrs : Exists(a)' <=> Exists(a)
      /\ \A a \in Addrs : task'[a] = "corrupt" => task[a] = "corrupt"
    <2>1. CASE \E c \in Callers : Stop(c)
        BY <2>1 DEF Stop, kernel, Exists
    <2>2. CASE \E a \in Addrs : Worker(a)
        <3>1. PICK a \in Addrs, l \in {"body", "returned", "parked"} :
                 task' = [task EXCEPT ![a] = l] /\ Exists(a)
            BY <2>2 DEF Worker, WorkerEnter, WorkerReturn, WorkerFinish, Exists
        <3> QED
            BY <1>1, <3>1 DEF Exists, TypeOK
    <2> QED
        BY <2>1, <2>2
<1>3. \A c \in Callers : Holds(c)' <=> Holds(c)
    BY <1>1 DEF Holds
<1>4. Owned'
    BY <1>1, <1>2, <1>3 DEF IInv, Owned, TypeOK, Ptrs
<1>5. AllHave'
    BY <1>1, <1>2 DEF IInv, AllHave, Has
<1> QED
    BY <1>1, <1>4, <1>5 DEF IInv, Heap, Turns, NoLeak, TcbsFreedOnce

LEMMA MainStep == ASSUME Reaped, IInv, [Next]_vars PROVE IInv'
<1>1. TypeOK'
    BY TypeStep DEF IInv
<1>2. CASE UNCHANGED vars
    BY <1>1, <1>2 DEF vars, heap, kernel, IInv, Turns, Owned, Heap, AllHave, Has, Exists, Holds, NoLeak, TcbsFreedOnce
<1>3. CASE Next
    <2>1. (Turns /\ Owned /\ Heap /\ AllHave)'
        BY <1>3, CleanStep, StartStackStep, StartTcbStep,
           StartCreateStep, StartPublishStep, StartGiveUpStep, EnterStep, JoinGoesOn, ReapStep,
           DestroyTakeStep, WorkerStep DEF Next, Inside
    <2> QED
        BY <1>1, <2>1 DEF IInv
<1> QED
    BY <1>2, <1>3

-----------------------------------------------------------------------------
(* The handshake *)

\* Where the handshake stands when nobody is inside, or is said to be.
LEMMA InsideOne ==
    ASSUME IInv, NEW c \in Callers, pc[c] # "idle", NEW to, Moved(c, to)
    PROVE  pc'[c] = to /\ \A d \in Callers \ {c} : pc[d] = "idle" /\ pc'[d] = "idle"
    BY MoveEffect DEF IInv, Turns

\* While there is no task, only the caller inside has a part in it.
LEMMA NoTaskTurn ==
    ASSUME IInv', NEW c \in Callers, NEW to, pc'[c] = to,
           \A d \in Callers \ {c} : pc'[d] = "idle",
           \A a \in Addrs : ~Exists(a)',
           \/ to \in PreTask /\ state' = "Starting"
           \/ to \in {"idle", "dtor_reap", "dtor_clean"} /\ state' = "Idle"
           \/ to = "cancel_store"
    PROVE  Handshake' /\ ReapedMeansReady'
<1>1. Handshake'
    BY DEF Handshake, Shakes, PreTask, StartLabels
<1>2. state' = "Idle" \/ pc'[c] # "idle"
    BY DEF PreTask, StartLabels
<1> QED
    BY <1>1, <1>2 DEF ReapedMeansReady

LEMMA StartTurn ==
    ASSUME Reaped, TurnInv, IInv', NEW c \in Callers,
           Start(c) \/ StartClean(c) \/ StartStack(c) \/ StartTcb(c) \/ StartUnwind(c) \/ StartGiveUp(c)
    PROVE  Handshake' /\ ReapedMeansReady'
<1> USE DEF Goto, Moved
<1>1. /\ \E to \in PreTask \cup {"idle"} : Moved(c, to) /\ state' = IF to = "idle" THEN "Idle" ELSE "Starting"
      /\ task' = task
    BY DEF Start, StartClean, StartStack, StartTcb, StartUnwind, StartGiveUp, StateAfterGiveUp, kernel,
           PreTask, StartLabels, TurnInv, Handshake, Shakes
<1>2. \A d \in Callers \ {c} : pc[d] = "idle"
    BY EnterAlone DEF TurnInv, IInv, Turns, StartClean, StartStack, StartTcb, StartUnwind, StartGiveUp
<1>3. \A a \in Addrs : ~Exists(a)
    <2>1. CASE Start(c)
        BY <2>1, EnterAlone DEF Start, MayStart, Reaped, TurnInv, ReapedMeansReady
    <2>2. CASE ~Start(c)
        BY <2>2 DEF StartClean, StartStack, StartTcb, StartUnwind, StartGiveUp, TurnInv, IInv, AllHave, Has,
                    PreTask, StartLabels
    <2> QED
        BY <2>1, <2>2
<1>4. PICK to \in PreTask \cup {"idle"} : Moved(c, to) /\ state' = IF to = "idle" THEN "Idle" ELSE "Starting"
    BY <1>1
<1>5. pc'[c] = to /\ \A d \in Callers \ {c} : pc'[d] = "idle"
    BY <1>2, <1>4, MoveEffect DEF TurnInv, IInv
<1>6. \A a \in Addrs : ~Exists(a)'
    BY <1>1, <1>3 DEF Exists
<1> QED
    BY <1>4, <1>5, <1>6, NoTaskTurn DEF PreTask, StartLabels

LEMMA CreateTurn ==
    ASSUME TurnInv, IInv', NEW c \in Callers, StartCreate(c) \/ StartPublish(c)
    PROVE  Handshake' /\ ReapedMeansReady'
<1> USE DEF Goto, Moved, TurnInv
<1>1. \E to \in {"unwind", "publish", "idle"} : Moved(c, to) /\ pc[c] # "idle" /\ state' = state
    BY DEF StartCreate, StartPublish
<1>2. \A d \in Callers \ {c} : pc[d] = "idle" /\ pc'[d] = "idle"
    BY <1>1, InsideOne
<1>3. CASE StartCreate(c)
    <2>1. pc[c] = "create" /\ state = "Starting" /\ \A a \in Addrs : ~Exists(a)
        BY <1>3 DEF StartCreate, Handshake, Shakes, PreTask, StartLabels, IInv, AllHave, Has
    <2>2. CASE Moved(c, "unwind") /\ task' = task
        <3>1. pc'[c] = "unwind" /\ \A a \in Addrs : ~Exists(a)'
            BY <2>1, <2>2, InsideOne DEF Exists
        <3> QED
            BY <1>1, <1>2, <2>1, <3>1, NoTaskTurn DEF PreTask, StartLabels
    <2>3. CASE Moved(c, "publish") /\ thread # Null /\ task' = Created(task, thread)
        <3>1. pc'[c] = "publish" /\ thread \in Addrs
            BY <1>1, <2>1, <2>3, InsideOne DEF IInv, TypeOK, Ptrs
        <3>2. \A a \in Addrs : Exists(a)' => task'[a] = "ready"
            BY <2>1, <2>3, <3>1 DEF Created, Exists, IInv, TypeOK, TaskStates
        <3>3. Handshake'
            BY <1>1, <1>2, <2>1, <3>1, <3>2 DEF Handshake, Shakes, Abreast, PreTask, StartLabels
        <3> QED
            BY <3>1, <3>3 DEF ReapedMeansReady
    <2> QED
        BY <1>3, <2>2, <2>3 DEF StartCreate, kernel
<1>4. CASE StartPublish(c)
    <2>1. /\ pc[c] = "publish" /\ Holds(c) /\ tid' = h[c] /\ task' = task /\ state' = state
          /\ \A d \in Callers : pc'[d] = "idle"
        BY <1>2, <1>4, InsideOne DEF StartPublish, kernel, Holds
    <2>2. tid' # Null
        BY <2>1 DEF IInv, Owned
    <2>3. Handshake'
        <3>1. ~\E d \in Callers : pc[d] = "join_wait"
            BY <1>2, <2>1
        <3> QED
            BY <2>1, <3>1 DEF Handshake, Shakes, Abreast, Exists, PreTask, StartLabels
    <2> QED
        BY <2>2, <2>3 DEF ReapedMeansReady
<1> QED
    BY <1>3, <1>4

LEMMA EnterTurn ==
    ASSUME Reaped, "entered" \in Contract, TurnInv, IInv', NEW c \in Callers,
           Join(c) \/ Cancel(c) \/ Destroy(c)
    PROVE  Handshake' /\ ReapedMeansReady'
<1> USE DEF Goto, Moved, TurnInv, TakeHandle, HandleAfterExchange, kernel
<1>1. \A d \in Callers : pc[d] = "idle"
    BY EnterAlone DEF IInv
<1>2. state' = state /\ task' = task /\ TypeOK
    BY DEF Join, Cancel, Destroy, IInv
<1>3. \A a \in Addrs : Exists(a) => Abreast(a)' /\ (tid = a)
    BY <1>1, <1>2 DEF Handshake, Abreast, IInv, Owned, Holds, JoinLabels
<1>4. tid = Null => state = "Idle"
    BY <1>1 DEF ReapedMeansReady
<1>5. PICK to \in {"join_store", "cancel_delete", "dtor_take", "dtor_reap"} :
         /\ Moved(c, to)
         /\ to = "join_store" => h' = [h EXCEPT ![c] = tid] /\ tid # Null /\ state # "Starting"
         /\ to = "dtor_take" => tid' = tid /\ tid # Null /\ state # "Starting"
         /\ to = "dtor_reap" => state = "Idle"
    BY <1>4 DEF Join, Cancel, Destroy, MayJoin
<1>6. pc'[c] = to /\ \A d \in Callers \ {c} : pc'[d] = "idle"
    BY <1>1, <1>2, <1>5, MoveEffect
<1>7. tid # Null => tid \in Addrs /\ Exists(tid) /\ (state # "Starting" => task[tid] # "ready")
    BY <1>2, <1>3 DEF Abreast, IInv, Owned, TypeOK, Ptrs
<1>8. to = "join_store" => h'[c] = tid
    BY <1>2, <1>5 DEF TypeOK
<1>9. Shakes(c)'
    BY <1>2, <1>5, <1>6, <1>7, <1>8 DEF Shakes, PreTask, StartLabels
<1>10. Handshake'
    BY <1>2, <1>3, <1>6, <1>9 DEF Handshake, Shakes, Exists, PreTask, StartLabels
<1> QED
    BY <1>6, <1>10 DEF ReapedMeansReady

LEMMA JoinTurn ==
    ASSUME TurnInv, IInv', NEW c \in Callers, JoinStore(c) \/ JoinWait(c) \/ DestroyTake(c)
    PROVE  Handshake' /\ ReapedMeansReady'
<1> USE DEF Goto, Moved, TurnInv, TakeHandle, HandleAfterExchange, kernel
<1>1. task' = task /\ TypeOK
    BY DEF JoinStore, JoinWait, DestroyTake, IInv
<1>2. PICK to \in {"join_wait", "join_delete", "join_store"} :
         Moved(c, to) /\ pc[c] # "idle"
      /\ (to = "join_wait" => JoinStore(c)) /\ (to = "join_delete" => JoinWait(c)) /\ (to = "join_store" => DestroyTake(c))
    BY DEF JoinStore, JoinWait, DestroyTake, Handshake, Shakes
<1>3. pc'[c] = to /\ \A d \in Callers \ {c} : pc[d] = "idle" /\ pc'[d] = "idle"
    BY <1>2, InsideOne
<1>4. CASE to = "join_wait"
    <2>1. pc[c] = "join_store" /\ h' = h /\ state' = "Stopping" /\ task[h[c]] # "ready" /\ Holds(c) /\ tid = Null
        BY <1>2, <1>4 DEF JoinStore, Handshake, Shakes, Holds, JoinLabels, IInv, Turns
    <2>2. \A a \in Addrs : Exists(a) => a = h[c]
        BY <1>3, <2>1 DEF IInv, Owned, Holds, JoinLabels
    <2>3. \A a \in Addrs : Exists(a)' => Abreast(a)'
        BY <1>1, <1>3, <1>4, <2>1, <2>2 DEF Abreast, Exists
    <2>4. Handshake'
        BY <1>1, <1>3, <1>4, <2>1, <2>3 DEF Handshake, Shakes, PreTask, StartLabels
    <2> QED
        BY <1>3, <1>4, <2>4 DEF ReapedMeansReady
<1>5. CASE to = "join_delete"
    <2>1. pc[c] = "join_wait" /\ h' = h /\ state' = state /\ state = "Idle" /\ task[h[c]] = "parked"
        BY <1>2, <1>5 DEF JoinWait, StillStopping, Handshake, Shakes
    <2>2. \A a \in Addrs : Exists(a)' => Abreast(a)'
        BY <1>1, <2>1 DEF Handshake, Abreast, Exists
    <2>3. Handshake'
        BY <1>1, <1>3, <1>5, <2>1, <2>2 DEF Handshake, Shakes, PreTask, StartLabels
    <2> QED
        BY <1>3, <1>5, <2>3 DEF ReapedMeansReady
<1>6. CASE to = "join_store"
    <2>1. pc[c] = "dtor_take" /\ h'[c] = tid /\ state' = state /\ tid # Null /\ task[tid] # "ready"
        BY <1>1, <1>2, <1>6 DEF DestroyTake, Handshake, Shakes, TypeOK
    <2>2. \A a \in Addrs : Exists(a)' => Abreast(a)'
        BY <1>1, <1>3, <2>1 DEF Handshake, Abreast, Exists
    <2>3. Handshake'
        BY <1>1, <1>3, <1>6, <2>1, <2>2 DEF Handshake, Shakes, PreTask, StartLabels
    <2> QED
        BY <1>3, <1>6, <2>3 DEF ReapedMeansReady
<1> QED
    BY <1>4, <1>5, <1>6

LEMMA ReapTurn ==
    ASSUME TurnInv, IInv', NEW c \in Callers,
           JoinDelete(c) \/ CancelDelete(c) \/ CancelStore(c) \/ DestroyReap(c) \/ DestroyClean(c)
    PROVE  Handshake' /\ ReapedMeansReady'
<1> USE DEF Goto, Moved, TurnInv, kernel
<1>1. PICK to \in {"idle", "cancel_store", "dtor_reap", "dtor_clean"} :
         Moved(c, to) /\ pc[c] # "idle" /\ (state' = "Idle" \/ to = "cancel_store")
    BY DEF JoinDelete, CancelDelete, CancelStore, DestroyReap, DestroyClean, Handshake, Shakes
<1>2. pc'[c] = to /\ \A d \in Callers \ {c} : pc'[d] = "idle"
    BY <1>1, InsideOne
<1>3. \A a \in Addrs : ~Exists(a)'
    <2>1. CASE CancelStore(c) \/ DestroyClean(c)
        BY <2>1 DEF CancelStore, DestroyClean, IInv, AllHave, Has, Exists
    <2>2. CASE ~(CancelStore(c) \/ DestroyClean(c))
        BY <2>2, ReapStep
    <2> QED
        BY <2>1, <2>2
<1> QED
    BY <1>1, <1>2, <1>3, NoTaskTurn

LEMMA StopTurn ==
    ASSUME TurnInv, NEW c \in Callers, Stop(c)
    PROVE  Handshake' /\ ReapedMeansReady'
<1>1. state = "Running" /\ state' = "Stopping" /\ UNCHANGED <<tid, task, pc, h>>
    BY DEF Stop, kernel
<1>3. \A a \in Addrs : Exists(a)' => Abreast(a)'
    BY <1>1 DEF TurnInv, Handshake, Abreast, Exists
<1>4. Handshake'
    BY <1>1, <1>3 DEF TurnInv, Handshake, Shakes
<1>5. ReapedMeansReady'
    BY <1>1 DEF TurnInv, ReapedMeansReady
<1> QED
    BY <1>4, <1>5

LEMMA WorkerTurn ==
    ASSUME TurnInv, IInv', NEW a \in Addrs, Worker(a)
    PROVE  Handshake' /\ ReapedMeansReady'
<1> USE DEF TurnInv
<1>1. UNCHANGED <<pc, h, tid>> /\ TypeOK /\ Exists(a)
    BY DEF Worker, WorkerEnter, WorkerReturn, WorkerFinish, IInv, Exists
<1>2. \A b \in Addrs : Exists(b) => b = a
    BY <1>1 DEF IInv, Owned
<1>3. /\ \A c \in Callers : Holds(c) => h[c] = a
      /\ tid # Null => tid = a
    BY <1>1, <1>2 DEF IInv, Owned, TypeOK, Ptrs
<1>4. \A c \in Callers : pc[c] \in JoinLabels => h[c] = a
    BY <1>3 DEF Holds
<1>5. \A c \in Callers : pc[c] \notin PreTask
    BY <1>1 DEF IInv, AllHave, Has
<1>6. /\ \A b \in Addrs : b # a => task'[b] = task[b]
      /\ \/ task[a] = "ready" /\ state = "Starting" /\ task'[a] = "body" /\ state' = "Running"
         \/ task[a] = "body" /\ task'[a] = "returned" /\ state' = state
         \/ task[a] = "returned" /\ task'[a] = "parked" /\ state' = "Idle"
      /\ task[a] \in {"body", "returned"} => state \in {"Running", "Stopping"}
    BY <1>1 DEF Worker, WorkerEnter, WorkerReturn, WorkerFinish, StateAfterRun, TypeOK, Handshake, Abreast
<1>7. \A b \in Addrs : Exists(b)' => Abreast(b)'
    BY <1>2, <1>6 DEF Abreast, Exists
<1>8. \A c \in Callers : Shakes(c)'
    BY <1>1, <1>3, <1>4, <1>5, <1>6 DEF Handshake, Shakes, JoinLabels
<1>9. ReapedMeansReady'
    BY <1>1 DEF IInv, Owned, Holds, JoinLabels, ReapedMeansReady
<1> QED
    BY <1>7, <1>8, <1>9 DEF Handshake

LEMMA TurnStep == ASSUME Reaped, "entered" \in Contract, TurnInv, [Next]_vars PROVE TurnInv'
<1>1. IInv'
    BY MainStep DEF TurnInv
<1>2. CASE UNCHANGED vars
    BY <1>1, <1>2 DEF vars, heap, kernel, TurnInv, Handshake, Shakes, Abreast, Exists, ReapedMeansReady
<1>3. CASE Next
    <2>1. Handshake' /\ ReapedMeansReady'
        BY <1>1, <1>3, StartTurn, CreateTurn, EnterTurn, JoinTurn, ReapTurn, StopTurn, WorkerTurn DEF Next, Inside
    <2> QED
        BY <1>1, <2>1 DEF TurnInv
<1> QED
    BY <1>2, <1>3

-----------------------------------------------------------------------------
LEMMA InitInv == Init => IInv /\ TurnInv
<1> SUFFICES ASSUME Init PROVE IInv /\ TurnInv
    OBVIOUS
<1> USE DEF Init, Exists
<1>1. TypeOK
    BY DEF TypeOK, States, Blocks, TaskStates, Labels, Ptrs
<1>2. Turns /\ Heap /\ AllHave
    BY DEF Turns, DtorLabels, Heap, NoLeak, TcbsFreedOnce, AllHave, Has, PreTask, StartLabels
<1>3. Owned
    BY DEF Owned, Holds, JoinLabels
<1>4. Handshake /\ ReapedMeansReady
    BY DEF Handshake, Shakes, ReapedMeansReady, PreTask, StartLabels
<1> QED
    BY <1>1, <1>2, <1>3, <1>4 DEF IInv, TurnInv

\* Every variable keeps its type: nothing is assumed of the callers.
THEOREM TypeCorrect == Spec => []TypeOK
<1>1. Init => TypeOK
    BY InitInv DEF IInv
<1> QED
    BY <1>1, TypeStep, PTL DEF Spec

\* However many threads join, cancel and destroy, a task handle is in one pair of hands and
\* no task is deleted twice, though its address is given to the task of a later start: if no
\* start() comes while somebody is still inside.
THEOREM HandlesNeverShared == ASSUME Reaped PROVE Spec => []HandleExclusive
<1>1. IInv /\ [Next]_vars => IInv'
    BY MainStep
<1>2. IInv => HandleExclusive
    BY DEF IInv, Turns, Owned, Holds, JoinLabels, HandleExclusive
<1> QED
    BY InitInv, <1>1, <1>2, PTL DEF Spec

\* A task never runs on freed memory under the same promise: whatever allocations fail,
\* whatever run() does, whoever calls stop(), for every set of callers and every heap.
THEOREM DisciplineIsSafe == ASSUME Reaped PROVE Spec => []NoUseAfterFree
<1>1. IInv /\ [Next]_vars => IInv'
    BY MainStep
<1>2. IInv => NoUseAfterFree
    BY DEF IInv, Owned, Heap, NoUseAfterFree
<1> QED
    BY InitInv, <1>1, <1>2, PTL DEF Spec

\* Nor is a block lost, or a TCB freed twice, whatever fails; and stack_ never names a stack
\* that was freed but after the one failure, a refused TCB, for which start() leaves it so.
THEOREM HeapStaysBalanced == ASSUME Reaped PROVE Spec => HeapBalanced
<1>1. IInv /\ [Next]_vars => IInv'
    BY MainStep
<1>2. IInv => NoLeak /\ TcbsFreedOnce
    BY DEF IInv, Heap
<1>3. ASSUME IInv, [Next]_vars PROVE [~StackDangles /\ StackDangles' => TcbRefused]_vars
    <2>1. SUFFICES ASSUME Next, stack' # Null, stacks'[stack'] # "live", ~StackDangles PROVE TcbRefused
        BY <1>3 DEF StackDangles
    <2>2. stack' = stack /\ stacks' = stacks => FALSE
        BY <2>1 DEF StackDangles
    <2>3. TypeOK
        BY <1>3 DEF IInv
    <2>4. ASSUME NEW c \in Callers, StartStack(c) PROVE FALSE
        BY <2>1, <2>3, <2>4 DEF StartStack, FreeIn, TypeOK
    <2>5. ASSUME NEW c \in Callers, StartTcb(c) PROVE TcbRefused
        BY <2>2, <2>3, <2>5, MoveEffect DEF StartTcb, TcbRefused, Goto, Moved
    <2>6. ASSUME NEW c \in Callers, StartClean(c) \/ StartUnwind(c) \/ DestroyClean(c) PROVE FALSE
        BY <2>1, <2>3, <2>6, CleanupEffect DEF StartClean, StartUnwind, DestroyClean
    <2> QED
        BY <2>1, <2>2, <2>4, <2>5, <2>6
           DEF Next, Inside, Start, Stop, Join, Cancel, Destroy, StartCreate, StartPublish, StartGiveUp,
               JoinStore, JoinWait, JoinDelete, CancelDelete, CancelStore, DestroyTake, DestroyReap,
               Worker, WorkerEnter, WorkerReturn, WorkerFinish, heap
<1>4. IInv /\ [Next]_vars => [~StackDangles /\ StackDangles' => TcbRefused]_vars
    BY <1>3
<1> QED
    BY InitInv, <1>1, <1>2, <1>4, PTL DEF Spec, HeapBalanced

\* If, moreover, no task is joined before it has entered, an object whose task was reaped,
\* or was never made, can be started again.
THEOREM ReapedIsReady ==
    ASSUME Reaped, "entered" \in Contract
    PROVE  Spec => []ReapedMeansReady
<1>1. TurnInv /\ [Next]_vars => TurnInv'
    BY TurnStep
<1>2. TurnInv => ReapedMeansReady
    BY DEF TurnInv
<1> QED
    BY InitInv, <1>1, <1>2, PTL DEF Spec

\* And a join deletes only a worker whose run() returned, and leaves the object Idle.
THEOREM JoinIsGentle ==
    ASSUME Reaped, "entered" \in Contract
    PROVE  Spec => JoinLeavesIdle
<1>1. TurnInv /\ [Next]_vars => TurnInv'
    BY TurnStep
<1>2. ASSUME TurnInv, [Next]_vars
      PROVE  [\A c \in Callers : pc[c] = "join_delete" /\ pc'[c] # "join_delete"
                               => task[h[c]] = "parked" /\ state' = "Idle"]_vars
    <2>1. SUFFICES ASSUME Next, NEW c \in Callers, pc[c] = "join_delete", pc'[c] # "join_delete"
                   PROVE  task[h[c]] = "parked" /\ state' = "Idle"
        BY <1>2
    <2>2. state = "Idle" /\ task[h[c]] = "parked"
        BY <1>2, <2>1 DEF TurnInv, Handshake, Shakes
    <2>3. /\ \A d \in Callers \ {c} : pc[d] = "idle"
          /\ \A a \in Addrs : Exists(a) => task[a] = "parked"
        <3>1. \A d \in Callers \ {c} : pc[d] = "idle"
            BY <1>2, <2>1 DEF TurnInv, IInv, Turns
        <3>2. \A a \in Addrs : Exists(a) => task[a] = "parked"
            BY <1>2, <2>2 DEF TurnInv, Handshake, Abreast
        <3> QED
            BY <3>1, <3>2
    <2>4. JoinDelete(c) \/ UNCHANGED state
        <3>1. pc \in [Callers -> Labels]
            BY <1>2 DEF TurnInv, IInv, TypeOK
        <3>2. \A a \in Addrs : ~Worker(a)
            BY <2>3 DEF Worker, WorkerEnter, WorkerReturn, WorkerFinish, Exists
        <3>3. ASSUME NEW d \in Callers, Inside(d) PROVE JoinDelete(c)
            <4>1. pc[d] # "idle"
                BY <3>3 DEF Inside, StartClean, StartStack, StartTcb, StartCreate, StartPublish, StartUnwind,
                            StartGiveUp, JoinStore, JoinWait, JoinDelete, CancelDelete, CancelStore,
                            DestroyTake, DestroyReap, DestroyClean
            <4>2. d = c
                BY <2>3, <4>1
            <4> QED
                BY <2>1, <3>3, <4>2
                   DEF Inside, StartClean, StartStack, StartTcb, StartCreate, StartPublish, StartUnwind,
                       StartGiveUp, JoinStore, JoinWait, CancelDelete, CancelStore,
                       DestroyTake, DestroyReap, DestroyClean
        <3>4. ASSUME NEW d \in Callers, Start(d) \/ Stop(d) \/ Join(d) \/ Cancel(d) \/ Destroy(d)
              PROVE  pc'[c] = pc[c]
            <4>1. d # c
                BY <2>1, <3>4 DEF Start, Stop, Join, Cancel, Destroy, Begin
            <4> QED
                BY <3>1, <3>4, <4>1 DEF Start, Stop, Join, Cancel, Destroy, Goto
        <3> QED
            BY <2>1, <3>2, <3>3, <3>4 DEF Next
    <2> QED
        BY <2>2, <2>4 DEF JoinDelete
<1>3. TurnInv /\ [Next]_vars
      => [\A c \in Callers : pc[c] = "join_delete" /\ pc'[c] # "join_delete"
                               => task[h[c]] = "parked" /\ state' = "Idle"]_vars
    BY <1>2
<1> QED
    BY InitInv, <1>1, <1>3, PTL DEF Spec, JoinLeavesIdle
=============================================================================
