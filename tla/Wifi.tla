-------------------------------- MODULE Wifi --------------------------------
(***************************************************************************)
(* Wifi: threads that bring the station up and down, change its mode and   *)
(* subscribe listeners, and the event task of ESP-IDF that runs the        *)
(* handlers onEventWifi() and onEventIp() and, under _cblock, the          *)
(* listeners.  Listeners may subscribe, unsubscribe and call back.         *)
(***************************************************************************)
EXTENDS Naturals, SequencesExt

CONSTANTS
    Threads,     \* the program's threads
    EventTask,   \* the task of the default event loop
    Nobody,      \* the owner of a free mutex
    Handles,     \* bound: list nodes that are ever allocated
    NoHandle,    \* the end of a list
    MaxQueue,    \* bound: events posted and not yet dispatched
    Contract,    \* what the callers keep to: see MayInit, MayDeinit
    SelfErase    \* a listener may unsubscribe itself

ASSUME OwnersAssumption   == EventTask \notin Threads /\ Nobody \notin Threads \cup {EventTask}
ASSUME HandlesAssumption  == NoHandle \notin Handles
ASSUME QueueAssumption    == MaxQueue \in Nat \ {0}
ASSUME ContractAssumption == Contract \subseteq {"init_once", "quiet_deinit"}
ASSUME ErasesAssumption   == SelfErase \in BOOLEAN

Lists  == {"ap", "scan"}             \* _ap_listeners and _scanners
Events == {"scan_done", "disconnected", "wifi", "ip"}

VARIABLES
    lock,       \* _lock
    cblock,     \* _cblock
    inited,     \* _inited; the two netifs are set with it
    lists,      \* the two lists
    pc,         \* where each thread is inside init() or deinit()
    mode,       \* the driver: "off" or its mode
    scanning,   \* a scan is going on
    loop,       \* the default event loop exists
    handlers,   \* the event bases whose handler is registered
    queue,      \* events posted
    stage,      \* where the event task is inside a handler
    at,         \* the listener that runs
    wants,      \* that listener is inside a call that takes _lock
    aborted,    \* an ESP_ERROR_CHECK failed
    used,       \* list nodes ever allocated
    due, called \* history of a pass: listeners to call, and called

user   == <<lock, inited, pc>>
driver == <<mode, scanning, loop, handlers, aborted>>
subs   == <<cblock, lists, used>>
task   == <<stage, at, wants>>
pass   == <<due, called>>
vars   == <<user, driver, subs, queue, task, pass>>

Deiniting == {"deinit_wifi", "deinit_ip", "deinit_stop", "deinit_done"}
Labels == Deiniting \cup {"idle", "init_setup", "init_wifi", "init_ip", "init_start",
                          "init_done"}

TypeOK ==
    /\ lock \in Threads \cup {Nobody} /\ cblock \in {EventTask, Nobody}
    /\ pc \in [Threads -> Labels]
    /\ \A t \in Threads : pc[t] # "idle" <=> lock = t
    /\ \A l \in Lists : lists[l] \in Seq(used) /\ IsInjective(lists[l])
    /\ used \subseteq Handles /\ due \cup called \subseteq used
    /\ mode \in {"off", "STA", "AP", "APSTA"} /\ handlers \subseteq {"wifi", "ip"}
    /\ queue \in Seq(Events) /\ Len(queue) <= MaxQueue
    /\ stage \in {"idle", "scan_enter", "scan", "ap_enter", "ap"}
    /\ at \in Handles \cup {NoHandle}
    /\ {inited, scanning, loop, wants, aborted} \subseteq BOOLEAN

Init ==
    /\ lock = Nobody /\ cblock = Nobody /\ inited = FALSE
    /\ lists = [l \in Lists |-> <<>>] /\ used = {}
    /\ pc = [t \in Threads |-> "idle"]
    /\ mode = "off" /\ scanning = FALSE /\ loop = FALSE /\ handlers = {} /\ queue = <<>>
    /\ stage = "idle" /\ at = NoHandle /\ wants = FALSE
    /\ aborted = FALSE
    /\ due = {} /\ called = {}

-----------------------------------------------------------------------------
\* The loop's own mutex is held while a handler runs; registering waits for it.
Busy == stage # "idle"

\* The contract of the passing run, which the test program keeps: init() once,
\* deinit() when all listeners are unsubscribed, and none comes meanwhile.
MayInit      == "init_once" \in Contract => ~loop
MayDeinit    == "quiet_deinit" \in Contract => \A l \in Lists : lists[l] = <<>>
MaySubscribe == "quiet_deinit" \in Contract => \A t \in Threads : pc[t] \notin Deiniting

\* Mutants: nobody looks at the lock; a path keeps it.
AnyLock(owner) == TRUE
LockFree(owner) == owner = Nobody
KeepLock(owner) == owner
Unlocked(owner) == Nobody

-----------------------------------------------------------------------------
(* init() and deinit() *)

Go(t, from, to) == pc[t] = from /\ pc' = [pc EXCEPT ![t] = to]

Enter(t) ==
    /\ LockFree(lock)
    /\ \/ ~inited /\ MayInit /\ Go(t, "idle", "init_setup")
       \/ inited /\ MayDeinit /\ Go(t, "idle", "deinit_wifi")
    /\ lock' = t
    /\ UNCHANGED <<inited, driver, subs, queue, task, pass>>

\* esp_event_loop_create_default() fails when the loop exists.
InitSetup(t) ==
    /\ Go(t, "init_setup", "init_wifi")
    /\ aborted' = loop
    /\ loop' = TRUE
    /\ UNCHANGED <<lock, inited, mode, scanning, handlers, subs, queue, task, pass>>

\* Mutants: the handler of the IP events stays, or that of the Wi-Fi events.
ForgetIp(hs, base) == hs \ ({base} \ {"ip"})
ForgetWifi(hs, base) == hs \ ({base} \ {"wifi"})
Unregistered(hs, base) == hs \ {base}

Register(t) ==
    /\ ~Busy
    /\ \/ Go(t, "init_wifi", "init_ip") /\ handlers' = handlers \cup {"wifi"}
       \/ Go(t, "init_ip", "init_start") /\ handlers' = handlers \cup {"ip"}
       \/ Go(t, "deinit_wifi", "deinit_ip") /\ handlers' = Unregistered(handlers, "wifi")
       \/ Go(t, "deinit_ip", "deinit_stop") /\ handlers' = Unregistered(handlers, "ip")
    /\ UNCHANGED <<lock, inited, mode, scanning, loop, aborted, subs, queue, task, pass>>

\* esp_wifi_start(), after which events come, and esp_wifi_stop().
StartStop(t) ==
    /\ \/ Go(t, "init_start", "init_done") /\ mode' = "STA" /\ UNCHANGED scanning
       \/ Go(t, "deinit_stop", "deinit_done") /\ mode' = "off" /\ scanning' = FALSE
    /\ UNCHANGED <<lock, inited, loop, handlers, aborted, subs, queue, task, pass>>

\* deinit() leaves the event loop as it is.
Done(t) ==
    /\ \/ Go(t, "init_done", "idle") /\ inited' = TRUE
       \/ Go(t, "deinit_done", "idle") /\ inited' = FALSE
    /\ lock' = Unlocked(lock)
    /\ UNCHANGED <<driver, subs, queue, task, pass>>

-----------------------------------------------------------------------------
(* The mode, and scans.  A thread waits for _lock; a listener's call is under  *)
(* way when wants is set, and it waits in the same way.                        *)

MayCall(t) == IF t = EventTask THEN wants ELSE pc[t] = "idle"

\* connect() needs the station, ap_start() the access point; neither asks for
\* both.  Each may fail at any of its calls of the driver, before the mode changes.
WithAp(m) == IF m \in {"AP", "APSTA"} THEN m ELSE "AP"
WithSta(m) == IF m \in {"STA", "APSTA"} THEN m ELSE "STA"

ModeCall(t, to) ==
    /\ MayCall(t) /\ LockFree(lock)
    /\ mode' \in {mode, IF mode = "off" THEN mode ELSE to}
    /\ wants' = (wants /\ t # EventTask)
    /\ UNCHANGED <<user, scanning, loop, handlers, aborted, subs, queue, stage, at, pass>>

Connect(t) == ModeCall(t, WithSta(mode))
ApStart(t) == ModeCall(t, WithAp(mode))
ApStop(t)  == ModeCall(t, "STA")

Scanned == scanning \/ mode \in {"STA", "APSTA"}

\* scan() takes no lock.
Scan(t) ==
    /\ pc[t] = "idle"
    /\ scanning' = Scanned
    /\ UNCHANGED <<user, mode, loop, handlers, aborted, subs, queue, task, pass>>

-----------------------------------------------------------------------------
(* Subscriptions *)

\* _cblock is recursive: the event task that runs a listener has it already.
\* Mutant: the lock is forgotten.
AnyCblock(owner, t) == TRUE
MayTake(owner, t) == owner \in {Nobody, t}

MaySubs(t) ==
    /\ IF t = EventTask THEN at # NoHandle /\ ~wants ELSE pc[t] = "idle"
    /\ MayTake(cblock, t)

\* A new listener goes to the end of its list.
Subscribe(t, l, h) ==
    /\ MaySubs(t) /\ MaySubscribe
    /\ h \notin used
    /\ used' = used \cup {h}
    /\ lists' = [lists EXCEPT ![l] = Append(@, h)]
    /\ UNCHANGED <<user, driver, cblock, queue, task, pass>>

Unsubscribe(t, l, h) ==
    /\ MaySubs(t)
    /\ t = EventTask /\ h = at => SelfErase
    /\ \E i \in DOMAIN lists[l] :
          lists[l][i] = h /\ lists' = [lists EXCEPT ![l] = RemoveAt(@, i)]
    /\ due' = due \ {h}
    /\ UNCHANGED <<user, driver, cblock, used, queue, task, called>>

-----------------------------------------------------------------------------
(* The event task *)

Base(e) == IF e = "ip" THEN "ip" ELSE "wifi"

\* A scan without results, or whose results find no memory or cannot be read,
\* breaks off to the listeners of all events.  Mutant: it returns.
ReturnEarly == "idle"
AfterNoResults == "ap_enter"

\* onEventWifi() and onEventIp() up to the listeners; an event without a handler is
\* dropped.  A disconnected station scans, and nobody reconnects it.
Dispatch ==
    /\ stage = "idle" /\ queue # <<>>
    /\ LET e == Head(queue)
           handled == Base(e) \in handlers
       IN  /\ stage' \in CASE ~handled -> {"idle"}
                           [] handled /\ e = "scan_done" -> {"scan_enter", AfterNoResults}
                           [] OTHER -> {"ap_enter"}
           /\ scanning' = IF handled /\ e = "disconnected" THEN Scanned ELSE scanning
           /\ aborted' = (handled /\ e = "scan_done" /\ mode = "off")
    /\ queue' = Tail(queue)
    /\ due' = {} /\ called' = {}
    /\ UNCHANGED <<user, mode, loop, handlers, subs, at, wants>>

List == IF stage \in {"scan_enter", "scan"} THEN lists["scan"] ELSE lists["ap"]

\* The iterator finds the end when it gets there: listeners that come meanwhile
\* are called too.
FirstOf(s) == IF s = <<>> THEN NoHandle ELSE Head(s)
NextOf(s, h) ==
    LET i == SelectInSeq(s, LAMBDA x : x = h)
    IN  IF i \in 1 .. Len(s) - 1 THEN s[i + 1] ELSE NoHandle

\* Mutant: the lists are walked under the other mutex.
OtherLock == lock
PassLock == cblock

EnterPass ==
    /\ stage \in {"scan_enter", "ap_enter"} /\ MayTake(PassLock, EventTask)
    /\ cblock' = EventTask
    /\ at' = FirstOf(List)
    /\ due' = ToSet(List) /\ called' = {}
    /\ stage' = IF stage = "scan_enter" THEN "scan" ELSE "ap"
    /\ UNCHANGED <<user, driver, lists, used, queue, wants>>

\* The listener calls connect(), ap_start() or ap_stop().
ListenerCalls ==
    /\ at # NoHandle /\ ~wants
    /\ at \notin called
    /\ wants' = TRUE
    /\ called' = called \cup {at}
    /\ UNCHANGED <<user, driver, subs, queue, stage, at, due>>

ListenerReturns ==
    /\ at # NoHandle /\ ~wants
    /\ called' = called \cup {at}
    /\ at' = NextOf(List, at)
    /\ UNCHANGED <<user, driver, subs, queue, stage, wants, due>>

LeavePass ==
    /\ stage \in {"scan", "ap"} /\ at = NoHandle
    /\ cblock' = Nobody
    /\ stage' = IF stage = "scan" THEN "ap_enter" ELSE "idle"
    /\ UNCHANGED <<user, driver, lists, used, queue, at, wants, pass>>

-----------------------------------------------------------------------------
(* The driver and the rest of the program *)

Post(e) ==
    /\ mode # "off" /\ Len(queue) < MaxQueue
    /\ e = "disconnected" => mode # "AP"
    /\ e = "scan_done" => scanning
    /\ queue' = Append(queue, e)
    /\ scanning' = (scanning /\ e # "scan_done")
    /\ UNCHANGED <<user, mode, loop, handlers, aborted, subs, task, pass>>

\* Other code may set both modes.
Combine ==
    /\ mode \in {"STA", "AP"}
    /\ mode' = "APSTA"
    /\ UNCHANGED <<user, scanning, loop, handlers, aborted, subs, queue, task, pass>>

Bring(t) == InitSetup(t) \/ Register(t) \/ StartStop(t) \/ Done(t)
Pass     == EnterPass \/ ListenerReturns \/ LeavePass
Call(t)  == Connect(t) \/ ApStart(t) \/ ApStop(t)

Next ==
    /\ ~aborted
    /\ \/ \E t \in Threads : Enter(t) \/ Bring(t) \/ Scan(t)
       \/ \E t \in Threads \cup {EventTask} :
             \/ Call(t)
             \/ \E l \in Lists, h \in Handles : Subscribe(t, l, h) \/ Unsubscribe(t, l, h)
       \/ Dispatch \/ Pass \/ ListenerCalls
       \/ \E e \in Events : Post(e)
       \/ Combine

\* Threads inside init() and deinit() and the event task go on; a thread that waits
\* for the loop's mutex gets it in its turn, and so does a listener that waits for
\* _lock.
Fairness ==
    /\ \A t \in Threads : SF_vars(Bring(t))
    /\ WF_vars(Dispatch) /\ WF_vars(Pass) /\ SF_vars(Call(EventTask))

Spec == Init /\ [][Next]_vars /\ Fairness

-----------------------------------------------------------------------------
(* Properties *)

\* After ap_unsubscribe() and scan_unsubscribe() return, the listener does not run
\* and will not: test/wifi.cpp deletes what its listeners use.  So the loops of
\* onEventWifi() and onEventIp() never stand on an erased node.
RunningIsSubscribed == at # NoHandle => at \in ToSet(List)

\* However the lists change, an event that has a handler reaches each listener of
\* all events that was subscribed when its turn began and still is, on every path of
\* onEventWifi() and onEventIp().
EventReachesAll ==
    [][/\ Len(queue') < Len(queue) /\ Base(Head(queue)) \in handlers => stage' # "idle"
       /\ stage # "idle" /\ stage' = "idle" => stage = "ap" /\ due \subseteq called]_vars

\* After deinit() no handler runs, and none will: the driver the handlers ask is gone.
\* So no ESP_ERROR_CHECK of the handlers fails.  (That of a next init() at Wifi.cpp:179 does:
\* deinit() leaves the default event loop.  "init_once" leaves it out.)
QuietWhenDown ==
    /\ ~inited /\ lock = Nobody => stage = "idle" /\ handlers = {} /\ mode = "off"
    /\ ~aborted

\* init(), deinit(), the handlers and their listeners come to an end: _lock, _cblock
\* and the loop's mutex do not deadlock.
NobodyHangs ==
    /\ \A t \in Threads : pc[t] # "idle" ~> pc[t] = "idle"
    /\ stage # "idle" ~> stage = "idle"
=============================================================================
