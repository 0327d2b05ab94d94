------------------------------- MODULE TPS4CC -------------------------------
(***************************************************************************)
(* TPS25751::write_4CC(): a command is written to the controller's CMD1    *)
(* register with its arguments in DATA1; the controller runs it, puts the  *)
(* answer in DATA1 and pulls its interrupt line, whose falling edge gives  *)
(* the semaphore pending_.  Every call of the program, I2C transfers to    *)
(* the charger included, goes through these two shared registers.          *)
(***************************************************************************)
EXTENDS Integers

CONSTANTS
    Callers,    \* threads that issue commands
    NoCaller,   \* nobody holds lock_
    MaxCalls,   \* bound: number of calls
    Bare        \* the calls whose command has no arguments

ASSUME CallersAssumption == NoCaller \notin Callers
ASSUME CallsAssumption   == MaxCalls \in Nat \ {0}
ASSUME BareAssumption    == Bare \subseteq 1 .. MaxCalls

Calls   == 1 .. MaxCalls
Nothing == 0

VARIABLES
    lock,      \* lock_
    pc,        \* where each caller is inside write_4CC()
    call,      \* the number of each caller's call
    result,    \* what its last call that returned 0 put in rx: see Answer
    calls,     \* calls begun
    sem,       \* pending_
    cmd1,      \* CMD1: Nothing, the call whose command it holds, or "refused"
    data1,     \* DATA1: the arguments or the answer of a call
    running,   \* the command being executed, with the arguments it found
    event,     \* the event bit is set and the interrupt line is low
    clean      \* history: did the controller have nothing to do when a call got the lock?

vars == <<lock, pc, call, result, calls, sem, cmd1, data1, running, event, clean>>
device == <<cmd1, data1, running, event>>

Args(n)      == [kind |-> "args", of |-> n, from |-> n]
Answer(n, a) == [kind |-> "answer", of |-> n, from |-> a]
Garbage      == [kind |-> "garbage", of |-> Nothing, from |-> Nothing]
Unread       == [kind |-> "unread", of |-> Nothing, from |-> Nothing]
Contents     == [kind : {"args", "answer", "garbage", "unread"},
                 of : Calls \cup {Nothing}, from : Calls \cup {Nothing}]

TypeOK ==
    /\ lock \in Callers \cup {NoCaller}
    /\ pc \in [Callers -> {"idle", "lock", "clear", "drain", "command", "wait50", "ack",
                           "wait250", "read"}]
    /\ \A c \in Callers : pc[c] \notin {"idle", "lock"} <=> lock = c
    /\ call \in [Callers -> Calls \cup {Nothing}]
    /\ result \in [Callers -> Contents]
    /\ calls \in 0 .. MaxCalls
    /\ sem \in BOOLEAN /\ event \in BOOLEAN
    /\ cmd1 \in Calls \cup {Nothing, -1}
    /\ data1 \in Contents
    /\ running \in [of : Calls \cup {Nothing}, args : Calls \cup {Nothing}]
    /\ clean \in [Callers -> BOOLEAN]

Refused == -1
Idle == [of |-> Nothing, args |-> Nothing]

\* The controller has nothing to do.
Quiet == running = Idle /\ cmd1 \notin Calls

Init ==
    /\ lock = NoCaller
    /\ pc = [c \in Callers |-> "idle"]
    /\ call = [c \in Callers |-> Nothing]
    /\ result = [c \in Callers |-> Garbage]
    /\ calls = 0
    /\ sem = FALSE
    /\ cmd1 = Nothing /\ data1 = Garbage /\ running = Idle /\ event = FALSE
    /\ clean = [c \in Callers |-> FALSE]

-----------------------------------------------------------------------------
(* The driver *)

\* Any I2C transfer may fail; a write that does may have reached the controller.
Failing(old, new) == {old, new}

Goto(c, label) == pc' = [pc EXCEPT ![c] = label]

\* Mutants: the lock is not taken; an error path keeps it.
AnyLock(l) == TRUE
LockFree(l) == l = NoCaller
KeepLock(l) == l
Unlocked(l) == NoCaller

Return(c) == Goto(c, "idle") /\ lock' = Unlocked(lock)

Enter(c) ==
    /\ pc[c] = "idle" /\ calls < MaxCalls
    /\ calls' = calls + 1
    /\ call' = [call EXCEPT ![c] = calls + 1]
    /\ result' = [result EXCEPT ![c] = Garbage]
    /\ Goto(c, "lock")
    /\ UNCHANGED <<lock, sem, device, clean>>

\* The lock is taken, and DATA1 gets the arguments if there are any.
Begin(c) ==
    /\ pc[c] = "lock" /\ LockFree(lock)
    /\ clean' = [clean EXCEPT ![c] = Quiet]
    /\ \/ /\ call[c] \in Bare
          /\ Goto(c, "clear") /\ lock' = c
          /\ UNCHANGED data1
       \/ /\ call[c] \notin Bare
          /\ Goto(c, "clear") /\ lock' = c
          /\ data1' = Args(call[c])
       \/ /\ call[c] \notin Bare
          /\ Goto(c, "idle") /\ UNCHANGED lock
          /\ data1' \in Failing(data1, Args(call[c]))
    /\ UNCHANGED <<call, result, calls, sem, cmd1, running, event>>

\* The result of the clear is not looked at.  Mutant: there is no clear.
KeepEvent(e) == e
Cleared(e) == FALSE

Clear(c) ==
    /\ pc[c] = "clear"
    /\ event' \in Failing(event, Cleared(event))
    /\ Goto(c, "drain")
    /\ UNCHANGED <<lock, call, result, calls, sem, cmd1, data1, running, clean>>

\* Mutant: a signal from before stays.
KeepSem(s) == s
Drained(s) == FALSE

Drain(c) ==
    /\ pc[c] = "drain"
    /\ sem' = Drained(sem)
    /\ Goto(c, "command")
    /\ UNCHANGED <<lock, call, result, calls, device, clean>>

Command(c) ==
    /\ pc[c] = "command"
    /\ \/ Goto(c, "wait50") /\ cmd1' = call[c] /\ UNCHANGED lock
       \/ Return(c) /\ cmd1' \in Failing(cmd1, call[c])
    /\ UNCHANGED <<call, result, calls, sem, data1, running, event, clean>>

TakeSem(c) ==
    /\ pc[c] \in {"wait50", "wait250"}
    /\ sem
    /\ sem' = FALSE
    /\ Goto(c, "read")
    /\ UNCHANGED <<lock, call, result, calls, device, clean>>

\* 50 ms have passed.
Timeout50(c) ==
    /\ pc[c] = "wait50" /\ ~sem
    /\ Goto(c, "ack")
    /\ UNCHANGED <<lock, call, result, calls, sem, device, clean>>

\* CMD1 is read back: a refusal ends the call, and so does a read that fails.
CheckAck(c) ==
    /\ pc[c] = "ack"
    /\ \/ cmd1 # Refused /\ Goto(c, "wait250") /\ UNCHANGED lock
       \/ Return(c)
    /\ UNCHANGED <<call, result, calls, sem, device, clean>>

\* 250 ms more have passed, whatever the controller does.
Timeout250(c) ==
    /\ pc[c] = "wait250" /\ ~sem
    /\ Return(c)
    /\ UNCHANGED <<call, result, calls, sem, device, clean>>

\* The answer; when its read fails, that is logged and 0 is returned all the same.
Read(c) ==
    /\ pc[c] = "read"
    /\ \E got \in {data1, Unread} : result' = [result EXCEPT ![c] = got]
    /\ Return(c)
    /\ UNCHANGED <<call, calls, sem, device, clean>>

-----------------------------------------------------------------------------
(* The controller *)

\* It starts on a command with what it finds in DATA1, if it needs arguments.
Execute ==
    /\ running = Idle /\ cmd1 \in Calls
    /\ running' = [of |-> cmd1,
                   args |-> IF cmd1 \in Bare THEN cmd1
                            ELSE IF data1.kind = "args" THEN data1.of ELSE Nothing]
    /\ UNCHANGED <<lock, pc, call, result, calls, sem, cmd1, data1, event, clean>>

\* It pulls the interrupt line: an edge, unless the line is low already.  The
\* edge runs onGpioCb().
Complete ==
    /\ running # Idle
    /\ data1' = Answer(running.of, running.args)
    /\ cmd1' = IF cmd1 = running.of THEN Nothing ELSE cmd1
    /\ running' = Idle
    /\ event' = TRUE
    /\ sem' = (sem \/ ~event)
    /\ UNCHANGED <<lock, pc, call, result, calls, clean>>

Refuse ==
    /\ running # Idle
    /\ cmd1' = IF cmd1 = running.of THEN Refused ELSE cmd1
    /\ running' = Idle
    /\ UNCHANGED <<lock, pc, call, result, calls, sem, data1, event, clean>>

-----------------------------------------------------------------------------
Driver(c) ==
    \/ Clear(c) \/ Drain(c) \/ Command(c) \/ TakeSem(c) \/ Timeout50(c)
    \/ CheckAck(c) \/ Timeout250(c) \/ Read(c)

Controller == Execute \/ Complete \/ Refuse

Next == (\E c \in Callers : Enter(c) \/ Begin(c) \/ Driver(c)) \/ Controller

\* Threads inside a call go on, clocks tick, and the controller works; the mutex
\* is handed to its waiters in turn.
Fairness == /\ \A c \in Callers : WF_vars(Driver(c)) /\ SF_vars(Begin(c))
            /\ WF_vars(Controller)

Spec == Init /\ [][Next]_vars /\ Fairness

-----------------------------------------------------------------------------
(* Properties *)

\* A call that got the lock while the controller had nothing to do gets the answer to
\* its own command, executed with its own arguments, or an error, or 0 and no answer when
\* that cannot be read: never another's answer, however late the controller is, whatever
\* the other threads did with the two registers and whatever transfers fail.  The
\* semaphore stands for its own command: when it is about to read, that was executed.
AnswerMatches ==
    \A c \in Callers : clean[c] =>
        /\ result[c] \in {Garbage, Unread, Answer(call[c], call[c])}
        /\ pc[c] = "read" => data1 = Answer(call[c], call[c])

\* The port as its users see it: lost while the controller has a command that nobody
\* waits for, and to a call that began meanwhile.
InPort ==
    LET Of(n, s) == [of |-> n, step |-> s]
        Step == IF Quiet THEN IF cmd1 = Refused THEN "refused" ELSE "executed" ELSE "given"
    IN  IF (IF lock = NoCaller THEN Quiet ELSE clean[lock])
        THEN IF lock # NoCaller /\ pc[lock] \in {"wait50", "ack", "wait250", "read"}
             THEN Of(call[lock], Step)
             ELSE Of(Nothing, "free")
        ELSE Of(Nothing, "lost")

Current == [c \in Callers |-> IF pc[c] = "idle" THEN Nothing ELSE call[c]]
Got == [c \in Callers |-> CASE result[c] = Garbage -> Nothing
                             [] result[c] = Unread -> -1
                             [] result[c] = Answer(call[c], call[c]) -> call[c]
                             [] OTHER -> -2]

\* write_4CC() implements the command port: calls pass one at a time, a command is given
\* once, and only a call that comes while an abandoned command is still with the
\* controller may get another's answer; the port is as good as new when that is done
\* and nobody is inside.
Port == INSTANCE CommandPort WITH current <- Current, made <- calls, port <- InPort, result <- Got
ServesPort == Port!Spec

\* Every call returns, on every path: one that waits for the lock gets it, so no
\* path of the calls before it kept it.
CallsReturn == \A c \in Callers : pc[c] # "idle" ~> pc[c] = "idle"
=============================================================================
