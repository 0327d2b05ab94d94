------------------------------ MODULE Runnable ------------------------------
(***************************************************************************)
(* A Runnable owns at most one FreeRTOS task, built on a stack and a task  *)
(* control block (TCB) that it allocates itself.  Callers are the threads  *)
(* that use the object; the workers are the tasks it creates.  Everything  *)
(* that two threads can interleave between (an atomic operation on state_  *)
(* or tid_, a heap call, a kernel call) is a step of its own.              *)
(***************************************************************************)
EXTENDS Integers, FiniteSets

CONSTANTS
    Callers,      \* threads that call start, stop, join and cancel
    Owner,        \* the caller that holds the unique_ptr to the object
    Addrs,        \* where the heap can have a block (the stacks and the TCBs apart)
    Null,         \* nullptr
    Body,         \* how the overridden run() decides to return (BodyMayReturn)
    Calls,        \* the operations the callers use
    AllocFails,   \* which allocations of start() may fail
    Contract      \* what the callers keep to: see MayStart, MayJoin, MayStop

Bodies     == {"polls_state", "polls_running", "returns"}
Operations == {"start", "stop", "join", "cancel", "destroy"}
Stages     == {"stack", "tcb", "create"}
Promises   == {"reap_first", "entered", "polls"}

ASSUME CallersAssumption  == Owner \in Callers
ASSUME AddrsAssumption    == Null \notin Addrs
ASSUME BodyAssumption     == Body \in Bodies
ASSUME CallsAssumption    == Calls \subseteq Operations
ASSUME FailsAssumption    == AllocFails \subseteq Stages
ASSUME ContractAssumption == Contract \subseteq Promises

\* A handle is the address of the TCB, which the heap gives again when it is free.
Ptrs == Addrs \cup {Null}

Blocks == {"free", "live", "corrupt"}
TaskStates == {"none", "ready", "body", "returned", "parked", "corrupt"}
States == {"Idle", "Starting", "Running", "Stopping"}

VARIABLES
    state,    \* Impl::state_
    tid,      \* Impl::tid_
    stack,    \* Impl::stack_
    thread,   \* Impl::thread_
    stacks,   \* what the allocator knows of each stack block
    tcbs,     \* what the allocator knows of each TCB block
    task,     \* what the kernel knows of the task on each TCB
    base,     \* the stack it stands on
    pc,       \* where each caller is inside an operation
    h,        \* the caller's local: its task handle
    life      \* "alive", "dying" (the destructor runs) or "destroyed"

heap == <<stack, thread, stacks, tcbs>>
kernel == <<task, base>>
vars == <<state, tid, heap, kernel, pc, h, life>>

StartLabels == {"clean", "stack", "tcb", "create", "publish", "unwind", "give_up"}
JoinLabels  == {"join_store", "join_wait", "join_delete"}
Labels      == {"idle", "cancel_delete", "cancel_store", "dtor_take",
                "dtor_reap", "dtor_clean"} \cup StartLabels \cup JoinLabels

\* A task that the kernel may still schedule, on its stack and its TCB.
Exists(a) == task[a] \in {"ready", "body", "returned", "parked"}

TypeOK ==
    /\ state \in States
    /\ tid \in Ptrs /\ stack \in Ptrs /\ thread \in Ptrs
    /\ stacks \in [Addrs -> Blocks] /\ tcbs \in [Addrs -> Blocks]
    /\ task \in [Addrs -> TaskStates]
    /\ base \in [Addrs -> Ptrs]
    /\ pc \in [Callers -> Labels]
    /\ h \in [Callers -> Ptrs]
    /\ life \in {"alive", "dying", "destroyed"}

Init ==
    /\ state = "Idle"
    /\ tid = Null /\ stack = Null /\ thread = Null
    /\ stacks = [a \in Addrs |-> "free"] /\ tcbs = [a \in Addrs |-> "free"]
    /\ task = [a \in Addrs |-> "none"]
    /\ base = [a \in Addrs |-> Null]
    /\ pc = [c \in Callers |-> "idle"]
    /\ h = [c \in Callers |-> Null]
    /\ life = "alive"

-----------------------------------------------------------------------------
(* The heap and the kernel *)

\* calloc(): any free block.
FreeIn(blocks) == {a \in Addrs : blocks[a] = "free"}

\* free() of a free block corrupts the heap, free(nullptr) does nothing.
Freed(blocks, p) ==
    [a \in DOMAIN blocks |->
        IF a = p THEN (IF blocks[a] = "live" THEN "free" ELSE "corrupt")
                 ELSE blocks[a]]

\* vTaskDelete() of what is no task corrupts the kernel's lists.
Deleted(tasks, p) ==
    [a \in DOMAIN tasks |->
        IF a = p THEN (IF tasks[a] \in {"none", "corrupt"} THEN "corrupt" ELSE "none")
                 ELSE tasks[a]]

\* xTaskCreateStatic() on a TCB that still has a task does, too.
Created(tasks, p) ==
    [tasks EXCEPT ![p] = IF tasks[p] = "none" THEN "ready" ELSE "corrupt"]

\* cleanup() frees what the two pointers name and clears them.
\* Mutants: the TCB is forgotten; a pointer keeps its value.
ForgetTcb(blocks, t) == blocks
TcbsAfterCleanup(blocks, t) == Freed(blocks, t)

KeepPointer(p) == p
PointerAfterFree(p) == Null

Cleanup ==
    /\ stacks' = Freed(stacks, stack)
    /\ tcbs' = TcbsAfterCleanup(tcbs, thread)
    /\ stack' = PointerAfterFree(stack)
    /\ thread' = PointerAfterFree(thread)

Goto(c, label) == pc' = [pc EXCEPT ![c] = label]

-----------------------------------------------------------------------------
(* What callers may promise; the code checks none of it.                       *)
(* "reap_first"  start() is called when the last task was joined or cancelled   *)
(*               and nobody is still inside the object                          *)
(* "entered"     a task has entered its trampoline before it is joined          *)
(* "polls"       it is in a body that looks at state() then, and no stop() came *)
(*               before or comes in between; the destructor may also find Idle  *)

MayStart == "reap_first" \in Contract => tid = Null /\ \A c \in Callers : pc[c] = "idle"
MayJoin  ==
    \/ tid = Null
    \/ /\ "entered" \in Contract => state # "Starting"
       /\ "polls" \in Contract => state = "Running" /\ Body = "polls_state"
MayStop  == "polls" \in Contract => \A c \in Callers : pc[c] \notin JoinLabels

-----------------------------------------------------------------------------
(* start() *)

Begin(c) == life = "alive" /\ pc[c] = "idle"

\* The compare-exchange from Idle to Starting; when it fails start() returns
\* false.
Start(c) ==
    /\ "start" \in Calls /\ Begin(c) /\ MayStart
    /\ state = "Idle"
    /\ state' = "Starting"
    /\ Goto(c, "clean")
    /\ UNCHANGED <<tid, heap, kernel, h, life>>

StartClean(c) ==
    /\ pc[c] = "clean"
    /\ Cleanup
    /\ Goto(c, "stack")
    /\ UNCHANGED <<state, tid, kernel, h, life>>

StartStack(c) ==
    /\ pc[c] = "stack"
    /\ \/ \E a \in FreeIn(stacks) :
             /\ stack' = a
             /\ stacks' = [stacks EXCEPT ![a] = "live"]
             /\ Goto(c, "tcb")
       \/ /\ "stack" \in AllocFails \/ FreeIn(stacks) = {}
          /\ stack' = Null
          /\ Goto(c, "give_up")
          /\ UNCHANGED stacks
    /\ UNCHANGED <<state, tid, thread, tcbs, kernel, h, life>>

\* When the TCB cannot be allocated, stack_ is freed but keeps its value.
StartTcb(c) ==
    /\ pc[c] = "tcb"
    /\ \/ \E a \in FreeIn(tcbs) :
             /\ thread' = a
             /\ tcbs' = [tcbs EXCEPT ![a] = "live"]
             /\ Goto(c, "create")
             /\ UNCHANGED stacks
       \/ /\ "tcb" \in AllocFails \/ FreeIn(tcbs) = {}
          /\ thread' = Null
          /\ stacks' = Freed(stacks, stack)
          /\ Goto(c, "give_up")
          /\ UNCHANGED tcbs
    /\ UNCHANGED <<state, tid, stack, kernel, h, life>>

\* The handle is the address of the TCB.  The new task may be scheduled before it is
\* stored in tid_.  No task is made on a stack or a TCB that another start() took away.
StartCreate(c) ==
    /\ pc[c] = "create"
    /\ \/ /\ stack # Null /\ thread # Null
          /\ task' = Created(task, thread)
          /\ base' = [base EXCEPT ![thread] = stack]
          /\ h' = [h EXCEPT ![c] = thread]
          /\ Goto(c, "publish")
          /\ UNCHANGED tid
       \/ /\ "create" \in AllocFails \/ Null \in {stack, thread}
          /\ tid' = Null
          /\ Goto(c, "unwind")
          /\ UNCHANGED <<kernel, h>>
    /\ UNCHANGED <<state, heap, life>>

StartPublish(c) ==
    /\ pc[c] = "publish"
    /\ tid' = h[c]
    /\ h' = [h EXCEPT ![c] = Null]
    /\ Goto(c, "idle")
    /\ UNCHANGED <<state, heap, kernel, life>>

StartUnwind(c) ==
    /\ pc[c] = "unwind"
    /\ Cleanup
    /\ Goto(c, "give_up")
    /\ UNCHANGED <<state, tid, kernel, h, life>>

\* Mutant: the state is not reset.
ForgetReset(s) == s
StateAfterGiveUp(s) == "Idle"

StartGiveUp(c) ==
    /\ pc[c] = "give_up"
    /\ state' = StateAfterGiveUp(state)
    /\ Goto(c, "idle")
    /\ UNCHANGED <<tid, heap, kernel, h, life>>

-----------------------------------------------------------------------------
(* stop(), join() and cancel() *)

\* stop() is one compare-exchange from Running to Stopping.
Stop(c) ==
    /\ "stop" \in Calls /\ Begin(c) /\ MayStop
    /\ state = "Running"
    /\ state' = "Stopping"
    /\ UNCHANGED <<tid, heap, kernel, pc, h, life>>

\* tid_.exchange(nullptr): what it leaves behind.
\* Mutants: the handle stays; a sentinel is stored for nullptr.
KeepHandle(t) == t
StoreSentinel(t) == Callers
HandleAfterExchange(t) == Null

TakeHandle(c) ==
    /\ h' = [h EXCEPT ![c] = tid]
    /\ tid' = HandleAfterExchange(tid)

Join(c) ==
    /\ "join" \in Calls /\ Begin(c) /\ MayJoin
    /\ tid # Null
    /\ TakeHandle(c)
    /\ Goto(c, "join_store")
    /\ UNCHANGED <<state, heap, kernel, life>>

JoinStore(c) ==
    /\ pc[c] = "join_store"
    /\ state' = "Stopping"
    /\ Goto(c, "join_wait")
    /\ UNCHANGED <<tid, heap, kernel, h, life>>

\* The polling loop of join() ends when it reads anything but Stopping.
\* Mutant: it does not wait.
NoWait(s) == FALSE
StillStopping(s) == s = "Stopping"

JoinWait(c) ==
    /\ pc[c] = "join_wait"
    /\ ~StillStopping(state)
    /\ Goto(c, "join_delete")
    /\ UNCHANGED <<state, tid, heap, kernel, h, life>>

\* join() returns to its caller, or to the destructor.
\* Mutant: the task is not deleted.
SkipDelete(tasks, p) == tasks
AfterJoinDelete(tasks, p) == Deleted(tasks, p)

JoinDelete(c) ==
    /\ pc[c] = "join_delete"
    /\ task' = AfterJoinDelete(task, h[c]) /\ UNCHANGED base
    /\ h' = [h EXCEPT ![c] = Null]
    /\ Goto(c, IF life = "dying" THEN "dtor_reap" ELSE "idle")
    /\ UNCHANGED <<state, tid, heap, life>>

Cancel(c) ==
    /\ "cancel" \in Calls /\ Begin(c)
    /\ tid # Null
    /\ TakeHandle(c)
    /\ Goto(c, "cancel_delete")
    /\ UNCHANGED <<state, heap, kernel, life>>

AfterCancelDelete(tasks, p) == Deleted(tasks, p)

CancelDelete(c) ==
    /\ pc[c] = "cancel_delete"
    /\ task' = AfterCancelDelete(task, h[c]) /\ UNCHANGED base
    /\ h' = [h EXCEPT ![c] = Null]
    /\ Goto(c, "cancel_store")
    /\ UNCHANGED <<state, tid, heap, life>>

CancelStore(c) ==
    /\ pc[c] = "cancel_store"
    /\ state' = "Idle"
    /\ Goto(c, "idle")
    /\ UNCHANGED <<tid, heap, kernel, h, life>>

-----------------------------------------------------------------------------
(* ~Impl().  The owner destroys the object when no other caller is inside it. *)

Quiet(c) == \A d \in Callers \ {c} : pc[d] = "idle"

\* First the destructor reads state_ to decide whether it joins.
Destroy(c) ==
    /\ "destroy" \in Calls /\ c = Owner /\ Begin(c) /\ Quiet(c)
    /\ MayJoin \/ state = "Idle"
    /\ life' = "dying"
    /\ Goto(c, IF state # "Idle" THEN "dtor_take" ELSE "dtor_reap")
    /\ UNCHANGED <<state, tid, heap, kernel, h>>

DestroyTake(c) ==
    /\ pc[c] = "dtor_take"
    /\ TakeHandle(c)
    /\ Goto(c, IF tid = Null THEN "dtor_reap" ELSE "join_store")
    /\ UNCHANGED <<state, heap, kernel, life>>

DestroyReap(c) ==
    /\ pc[c] = "dtor_reap"
    /\ task' = Deleted(task, tid) /\ UNCHANGED base
    /\ tid' = Null
    /\ Goto(c, "dtor_clean")
    /\ UNCHANGED <<state, heap, h, life>>

DestroyClean(c) ==
    /\ pc[c] = "dtor_clean"
    /\ Cleanup
    /\ life' = "destroyed"
    /\ Goto(c, "idle")
    /\ UNCHANGED <<state, tid, kernel, h>>

-----------------------------------------------------------------------------
(* taskTrampoline(): the worker *)

WorkerEnter(a) ==
    /\ task[a] = "ready"
    /\ state' = "Running"
    /\ task' = [task EXCEPT ![a] = "body"] /\ UNCHANGED base
    /\ UNCHANGED <<tid, heap, pc, h, life>>

\* "polls_state":   while (state() == State::Running)
\* "polls_running": while (running())
\* "returns":       run() returns when it likes
BodyMayReturn ==
    CASE Body = "polls_state"   -> state # "Running"
      [] Body = "polls_running" -> state = "Idle"
      [] Body = "returns"       -> TRUE

WorkerReturn(a) ==
    /\ task[a] = "body"
    /\ BodyMayReturn
    /\ task' = [task EXCEPT ![a] = "returned"] /\ UNCHANGED base
    /\ UNCHANGED <<state, tid, heap, pc, h, life>>

\* The last store, then vTaskDelay(portMAX_DELAY): the task stays parked.
\* Mutant: the store is forgotten.
LeaveStopping(s) == s
StateAfterRun(s) == "Idle"

WorkerFinish(a) ==
    /\ task[a] = "returned"
    /\ state' = StateAfterRun(state)
    /\ task' = [task EXCEPT ![a] = "parked"] /\ UNCHANGED base
    /\ UNCHANGED <<tid, heap, pc, h, life>>

-----------------------------------------------------------------------------

\* The steps of an operation that has begun.
Inside(c) ==
    \/ StartClean(c) \/ StartStack(c) \/ StartTcb(c) \/ StartCreate(c)
    \/ StartPublish(c) \/ StartUnwind(c) \/ StartGiveUp(c)
    \/ JoinStore(c) \/ JoinWait(c) \/ JoinDelete(c)
    \/ CancelDelete(c) \/ CancelStore(c)
    \/ DestroyTake(c) \/ DestroyReap(c) \/ DestroyClean(c)

Worker(a) == WorkerEnter(a) \/ WorkerReturn(a) \/ WorkerFinish(a)

Next ==
    \/ \E c \in Callers :
        \/ Start(c) \/ Stop(c) \/ Join(c) \/ Cancel(c) \/ Destroy(c)
        \/ Inside(c)
    \/ \E a \in Addrs : Worker(a)

\* The scheduler runs every caller inside an operation and every task that is
\* able to run; nobody is obliged to call anything.
Fairness == /\ \A c \in Callers : WF_vars(Inside(c))
            /\ \A a \in Addrs : WF_vars(Worker(a))

Spec == Init /\ [][Next]_vars /\ Fairness

-----------------------------------------------------------------------------
(* Properties of callers that keep to "reap_first"; those about a join need     *)
(* "entered" too, and WaitersReturn needs "polls".                              *)

\* A task that can be scheduled always stands on a stack and a TCB that are
\* still allocated: no path of start(), join(), cancel() or the destructor
\* frees them under it, nor deletes the task after them.
NoUseAfterFree ==
    \A a \in Addrs : Exists(a) => base[a] # Null /\ stacks[base[a]] = "live" /\ tcbs[a] = "live"

\* Every allocated block is named by stack_ or thread_, so that the next
\* cleanup() returns it: no failing path of start() and no restart loses one.
NoLeak ==
    \A a \in Addrs : /\ stacks[a] = "live" => stack = a
                     /\ tcbs[a] = "live" => thread = a

\* Nor is a TCB ever freed twice.  A stack is: when start() is refused its TCB it frees
\* the stack and keeps stack_ (58-62), which the next start() or the destructor frees
\* again.  That is the only step that leaves stack_ dangling, and so the only source of
\* a double free, among all failures of start().
TcbsFreedOnce == \A a \in Addrs : tcbs[a] # "corrupt"
StackDangles  == stack # Null /\ stacks[stack] # "live"
TcbRefused    == \E c \in Callers : pc[c] = "tcb" /\ pc'[c] = "give_up"
HeapBalanced  == [](NoLeak /\ TcbsFreedOnce) /\ [][~StackDangles /\ StackDangles' => TcbRefused]_vars

\* Whenever nobody is inside the object and it holds no task (before the
\* first start, after a failed one, after join or cancel, after destruction),
\* it is as good as new: start() will pass its CAS, and no task of an
\* earlier start is left in the kernel.
ReapedMeansReady ==
    tid = Null /\ (\A c \in Callers : pc[c] = "idle") => state = "Idle" /\ \A a \in Addrs : ~Exists(a)

\* join() deletes the task only after run() has returned, never in the middle of its
\* body; and the state is Idle when it returns, as test/run.cpp:78-82 expects.
JoinLeavesIdle ==
    [][\A c \in Callers : pc[c] = "join_delete" /\ pc'[c] # "join_delete"
                           => task[h[c]] = "parked" /\ state' = "Idle"]_vars

\* Every join that has taken the handle returns, the destructor's too.
JoinReturns ==
    \A c \in Callers : pc[c] \in JoinLabels ~> pc[c] \notin JoinLabels

\* A destructor that has begun ends.
DestroyCompletes == life = "dying" ~> life = "destroyed"

\* Whoever waits for a worker that looks at state() comes back: for
\* ever waiting would take a Stopping that nobody leaves again.
WaitersReturn == JoinReturns /\ DestroyCompletes

Holds(c) == pc[c] \in JoinLabels \cup {"publish", "cancel_delete"}

\* However many threads join, cancel and destroy at once, the handle goes to one of them:
\* that is what the exchange on tid_ is for.  So a task is deleted once, while it is a
\* task, and not when its address, TCB and handle have gone to the task of a later start.
HandleExclusive ==
    /\ \A c, d \in Callers : Holds(c) /\ Holds(d) /\ c # d => h[c] # h[d]
    /\ \A c \in Callers : Holds(c) => h[c] # tid
    /\ \A c \in Callers : Holds(c) => Exists(h[c])
    /\ tid # Null => Exists(tid)
    /\ \A a \in Addrs : task[a] # "corrupt"
=============================================================================
