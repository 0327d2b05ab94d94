------------------------------- MODULE TPSBoot -------------------------------
(***************************************************************************)
(* TPS25751::run() and initialize(): the worker brings the controller from *)
(* its boot loader to its application by sending it a patch, publishes the *)
(* charger, polls, and starts over when the controller was reset.  Each    *)
(* round holds lock_.  Meanwhile users move bytes to and from the charger  *)
(* through the controller, in chunks, each of them a command that takes    *)
(* lock_.  A command is one step here: TPS4CC has its inside.              *)
(***************************************************************************)
EXTENDS Integers, Sequences

CONSTANTS
    Users,       \* threads that use the charger
    Worker,      \* the task that executes run()
    Nobody,      \* the owner of a free lock_
    Blocks,      \* the blocks loadPatch() cuts the patch into
    Size,        \* the bytes of a user's transfer
    ChunkMax,    \* I2C_READ_MAX, I2C_WRITE_MAX
    HeldCancel   \* cancel() may hit the worker while it holds lock_

ASSUME OwnersAssumption == Worker \notin Users /\ Nobody \notin Users \cup {Worker}
ASSUME SizesAssumption  == {Blocks, Size, ChunkMax} \subseteq Nat \ {0}
ASSUME CancelAssumption == HeldCancel \in BOOLEAN

Null    == 0
Torn    == 0     \* a block of which only a part arrived
Foreign == -1    \* another thread's command among the blocks

VARIABLES
    lock,      \* lock_
    pc,        \* where the worker is; "off": there is none
    state,     \* Runnable's state_ of a worker
    n,         \* blocks sent in this round
    charger,   \* charger_: Null, or the number of its construction
    bad,       \* the supply or the bus is disturbed: transfers fail, the controller resets
    mode,      \* the controller's mode; "starting": APP soon
    irq,       \* it signals the completion of commands
    open, got, \* it accepts a patch, and what it got of it
    monitor,   \* Port Control: enableCurrentMonitor
    sent,      \* bytes of each user's transfer done, -1 outside a transfer
    res,       \* how its last one ended
    moved,     \* history: the charger's registers this transfer touched, in order
    blind,     \* history: the users who took an answer that was not read for a success
    seen       \* history: a worker has found the controller in APP

worker     == <<pc, state, n, charger, seen>>
controller == <<mode, irq, open, got, monitor>>
users      == <<sent, res, moved, blind>>
vars       == <<lock, worker, bad, controller, users>>

Labels == {"off", "wait", "mode", "irq", "pbms", "probe", "load", "pbmc", "check", "setup",
           "charger", "poll", "poll_write"}

TypeOK ==
    /\ lock \in Users \cup {Worker, Nobody} /\ pc \in Labels
    /\ state \in {"Idle", "Running", "Stopping"} /\ (state = "Idle" <=> pc = "off")
    /\ n \in 0 .. Blocks /\ charger \in Nat
    /\ mode \in {"BOOT", "PTCH", "starting", "APP"}
    /\ {bad, irq, open, monitor, seen} \subseteq BOOLEAN
    /\ got \in Seq(-1 .. Blocks)
    /\ sent \in [Users -> -1 .. Size]
    /\ res \in [Users -> {"none", "ok", "error"}]
    /\ moved \in [Users -> Seq(1 .. Size)] /\ blind \subseteq Users

Init ==
    /\ lock = Nobody /\ pc = "off" /\ state = "Idle" /\ n = 0 /\ charger = Null
    /\ bad \in BOOLEAN /\ mode \in {"BOOT", "PTCH", "APP"} /\ irq \in BOOLEAN
    /\ open = FALSE /\ got = <<>> /\ monitor = FALSE
    /\ sent = [u \in Users |-> -1] /\ res = [u \in Users |-> "none"]
    /\ moved = [u \in Users |-> <<>>] /\ blind = {} /\ seen = FALSE

-----------------------------------------------------------------------------
(* One round of initialize() *)

At(label) == pc = label
Goto(label) == pc' = label

\* Runnable::running().  Mutant: it is true of Running only.
OnlyRunning(s) == s = "Running"
LoopsOn(s) == s # "Idle"

\* Mutant: a path out of a round keeps the lock.
KeepLock(owner) == owner
Unlocked(owner) == Nobody

Again == Goto(IF LoopsOn(state) THEN "wait" ELSE "charger") /\ lock' = Unlocked(lock)
Leave == Goto("charger") /\ lock' = Nobody

\* How a command with an answer may go: it is carried out or not, write_4CC() returns
\* 0 or not, and has read the answer or not: it returns 0 also when that read failed.
\* Without the signal of its completion a command is carried out and times out.
Outcomes == {[runs |-> TRUE, ok |-> irq, read |-> TRUE]}
    \cup IF bad THEN [runs : BOOLEAN, ok : BOOLEAN, read : BOOLEAN] ELSE {}

\* 150 ms later, but for the first round.  Mutant: the lock is not taken.
AnyLock(owner) == TRUE
LockFree(owner) == owner = Nobody

TakeLock ==
    /\ At("wait") /\ LockFree(lock)
    /\ lock' = Worker /\ Goto("mode") /\ n' = 0
    /\ UNCHANGED <<state, charger, seen, bad, controller, users>>

\* A controller in APP is left as it is: its interrupt mask too.
ReadMode ==
    /\ At("mode")
    /\ \/ bad /\ Again /\ UNCHANGED seen
       \/ mode = "APP" /\ Leave /\ seen' = TRUE
       \/ mode # "APP" /\ Goto("irq") /\ UNCHANGED <<lock, seen>>
    /\ UNCHANGED <<state, n, charger, bad, controller, users>>

EnableIrq ==
    /\ At("irq")
    /\ \/ bad /\ Again /\ UNCHANGED irq
       \/ irq' = TRUE /\ Goto("pbms") /\ UNCHANGED lock
    /\ UNCHANGED <<state, n, charger, seen, bad, mode, open, got, monitor, users>>

\* A PBMs that the controller takes ends the session before it, and begins one if it
\* is carried out.  What is read from DATA1 has the address of the patch in any case:
\* an unused PBMs leaves there its own arguments, with the same address at the same
\* place.  When nothing is read the buffer has zeros.
Pbms ==
    /\ At("pbms")
    /\ \E o \in Outcomes :
          /\ IF o.runs \/ o.ok THEN open' = (o.runs /\ mode = "PTCH") /\ got' = <<>>
                               ELSE UNCHANGED <<open, got>>
          /\ IF o.ok /\ o.read THEN Goto("probe") /\ UNCHANGED lock ELSE Again
    /\ UNCHANGED <<state, n, charger, seen, bad, mode, irq, monitor, users>>

Probe ==
    /\ At("probe")
    /\ \/ open /\ Goto("load") /\ UNCHANGED lock
       \/ (bad \/ ~open) /\ Again
    /\ UNCHANGED <<state, n, charger, seen, bad, controller, users>>

\* loadPatch(): a device that cannot be added is an error, a block that cannot be
\* sent is not.  Mutant: one block too many.
PastLast(k) == k > Blocks
IsLast(k) == k = Blocks

Load ==
    /\ At("load")
    /\ \/ /\ open
          /\ got' = Append(got, n + 1) /\ n' = n + 1
          /\ Goto(IF IsLast(n + 1) THEN "pbmc" ELSE "load") /\ UNCHANGED lock
       \/ /\ bad \/ ~open
          /\ got' \in {got} \cup (IF open THEN {Append(got, Torn)} ELSE {})
          /\ Goto("pbmc") /\ UNCHANGED <<n, lock>>
       \/ bad /\ n = 0 /\ Again /\ UNCHANGED <<n, got>>
    /\ UNCHANGED <<state, charger, seen, bad, mode, irq, open, monitor, users>>

Patch == [i \in 1 .. Blocks |-> i]

\* Only the controller looks whether the patch is complete; its answer, read or not,
\* is not looked at.  The application starts now or soon, with interrupts masked.
Pbmc ==
    /\ At("pbmc")
    /\ \E o \in Outcomes :
          /\ IF o.runs /\ open
             THEN /\ open' = FALSE /\ got' = <<>>
                  /\ \/ got = Patch /\ mode' \in {"starting", "APP"} /\ irq' = FALSE
                     \/ got # Patch /\ UNCHANGED <<mode, irq>>
             ELSE UNCHANGED <<open, got, mode, irq>>
          /\ IF o.ok THEN Goto("check") /\ UNCHANGED lock ELSE Again
    /\ UNCHANGED <<state, n, charger, seen, bad, monitor, users>>

\* 20 ms later.
Check ==
    /\ At("check")
    /\ \/ bad /\ Again /\ UNCHANGED seen
       \/ mode = "APP" /\ Goto("setup") /\ seen' = TRUE /\ UNCHANGED lock
       \/ mode # "APP" /\ Again /\ UNCHANGED seen
    /\ UNCHANGED <<state, n, charger, bad, controller, users>>

\* Nobody looks at what these writes return; DBfg, for a controller that started
\* from a dead battery, changes nothing here.
Setup ==
    /\ At("setup")
    /\ irq' \in {TRUE} \cup (IF bad THEN {irq} ELSE {})
    /\ Leave
    /\ UNCHANGED <<state, n, charger, seen, bad, mode, open, got, monitor, users>>

-----------------------------------------------------------------------------
(* run(), and the end of initialize(), without the lock *)

\* Mutant: a charger that exists is constructed anew.
AlwaysNew(p) == p + 1
AfterPublish(p) == IF p = Null THEN 1 ELSE p

Publish ==
    /\ At("charger")
    /\ charger' = AfterPublish(charger)
    /\ Goto("poll")
    /\ UNCHANGED <<lock, state, n, seen, bad, controller, users>>

\* Mutant: initialize() comes before the loop, not in it.
PollOnly == "poll"
NextRound == IF LoopsOn(state) THEN "wait" ELSE "off"

Poll ==
    /\ At("poll")
    /\ \/ ~monitor /\ Goto("poll_write")
       \/ (monitor \/ bad) /\ Goto(NextRound)
    /\ UNCHANGED <<lock, state, n, charger, seen, bad, controller, users>>

PollWrite ==
    /\ At("poll_write")
    /\ monitor' \in {mode = "APP"} \cup (IF bad THEN {monitor} ELSE {})
    /\ Goto(NextRound)
    /\ UNCHANGED <<lock, state, n, charger, seen, bad, mode, irq, open, got, users>>

-----------------------------------------------------------------------------
(* The worker's life *)

Start ==
    /\ At("off") /\ Goto("wait") /\ state' = "Running"
    /\ UNCHANGED <<lock, n, charger, seen, bad, controller, users>>

\* stop(), and the store of join() and the destructor.
Stop ==
    /\ state = "Running" /\ state' = "Stopping"
    /\ UNCHANGED <<lock, pc, n, charger, seen, bad, controller, users>>

\* vTaskDelete() gives no mutex back.
Cancel ==
    /\ ~At("off") /\ (HeldCancel \/ lock # Worker)
    /\ Goto("off") /\ state' = "Idle"
    /\ UNCHANGED <<lock, n, charger, seen, bad, controller, users>>

-----------------------------------------------------------------------------
(* i2c_read() and i2c_write() *)

StartTransfer(u) ==
    /\ charger # Null /\ sent[u] = -1
    /\ sent' = [sent EXCEPT ![u] = 0]
    /\ res' = [res EXCEPT ![u] = "none"]
    /\ moved' = [moved EXCEPT ![u] = <<>>] /\ blind' = blind \ {u}
    /\ UNCHANGED <<lock, worker, bad, controller>>

ChunkLen(done) == IF Size - done > ChunkMax THEN ChunkMax ELSE Size - done

\* The charger's registers that a chunk touches.  Mutant: it starts at the first.
FromFirst(done) == [i \in 1 .. ChunkLen(done) |-> i]
Registers(done) == [i \in 1 .. ChunkLen(done) |-> done + i]

\* The first foreign command is enough to spoil a patch.
Spoiled(g) == IF \E i \in 1 .. Len(g) : g[i] = Foreign THEN g ELSE Append(g, Foreign)

\* i2c_read_single() or i2c_write_single(), a command under lock_: an answer that was
\* not read leaves out at 0, which is success; a command not carried out leaves its
\* arguments in DATA1, which are an error.
Chunk(u) ==
    /\ sent[u] >= 0 /\ LockFree(lock)
    /\ \E o \in Outcomes :
          LET done == sent[u] + ChunkLen(sent[u])
              good == o.ok /\ (o.read => o.runs /\ mode = "APP")
          IN  /\ blind' = IF good /\ ~o.read THEN blind \cup {u} ELSE blind
              /\ moved' = IF o.runs /\ mode = "APP"
                          THEN [moved EXCEPT ![u] = @ \o Registers(sent[u])] ELSE moved
              /\ got' = IF o.runs /\ open THEN Spoiled(got) ELSE got
              /\ sent' = [sent EXCEPT ![u] = IF good /\ done < Size THEN done ELSE -1]
              /\ res' = [res EXCEPT ![u] =
                     IF ~good THEN "error" ELSE IF done < Size THEN "none" ELSE "ok"]
    /\ UNCHANGED <<lock, worker, bad, mode, irq, open, monitor>>

-----------------------------------------------------------------------------
(* The controller, its supply and its bus *)

Disturb ==
    /\ bad' = ~bad
    /\ UNCHANGED <<lock, worker, controller, users>>

Reset ==
    /\ bad
    /\ mode' = "BOOT" /\ irq' = FALSE /\ open' = FALSE /\ got' = <<>> /\ monitor' = FALSE
    /\ UNCHANGED <<lock, worker, bad, users>>

Booted ==
    /\ \/ mode = "BOOT" /\ mode' = "PTCH"
       \/ mode = "starting" /\ mode' = "APP"
    /\ UNCHANGED <<lock, worker, bad, irq, open, got, monitor, users>>

-----------------------------------------------------------------------------
Round == ReadMode \/ EnableIrq \/ Pbms \/ Probe \/ Load \/ Pbmc \/ Check \/ Setup
Run == TakeLock \/ Round \/ Publish \/ Poll \/ PollWrite

Next ==
    \/ Run \/ Start \/ Stop \/ Cancel
    \/ \E u \in Users : StartTransfer(u) \/ Chunk(u)
    \/ Disturb \/ Reset \/ Booted

\* The worker and the controller go on; lock_ is handed to its waiters in turn.
Fairness == WF_vars(Run) /\ WF_vars(Booted) /\ \A u \in Users : SF_vars(Chunk(u))

Spec == Init /\ [][Next]_vars /\ Fairness

-----------------------------------------------------------------------------
(* Properties *)

\* When the worker sends the patch and completes it, the controller has got its
\* blocks since PBMs, in order, each once, the last perhaps torn: no user's command
\* comes between, however earlier rounds ended and whatever was reset.
PatchClean ==
    pc \in {"load", "pbmc"} /\ open =>
        \A i \in 1 .. Len(got) : got[i] = i \/ (got[i] = Torn /\ i = Len(got) /\ pc = "pbmc")

\* A transfer touches its registers in order and none twice, however the controller
\* fails between its chunks; and it touches them from its first one on, and all of
\* them if it returns 0, unless the answer to one of its commands could not be read.
TransferInOrder ==
    \A u \in Users :
        /\ \A i, j \in 1 .. Len(moved[u]) : i < j => moved[u][i] < moved[u][j]
        /\ u \notin blind =>
              /\ \A i \in 1 .. Len(moved[u]) : moved[u][i] = i
              /\ res[u] = "ok" => Len(moved[u]) = Size

\* charger_ is set once, over restarts of the worker too, so that the pointers that
\* getCharger() gave away stay valid; and only when the controller was in APP, not
\* when stop() ends the retries.
ChargerSetOnce == [][charger' # charger => charger = Null /\ seen]_vars

\* A user's transfer returns, whatever happens to the controller, though the worker
\* may retry for ever: the lock is free between its rounds.
TransfersReturn == \A u \in Users : sent[u] >= 0 ~> sent[u] = -1

\* When supply and bus are good for long enough, a worker that is not cancelled
\* brings the controller to APP with its current monitor on, and keeps it there.
Boots == <>[](~bad /\ ~At("off")) => <>[](mode = "APP" /\ monitor)
=============================================================================
