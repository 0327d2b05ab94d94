---------------------------- MODULE TPS4CCProofs ----------------------------
(***************************************************************************)
(* Why the answers of commands reach the callers they are for, for any     *)
(* number of callers and calls, whatever fails and however late the        *)
(* controller is: what a call finds in the shared registers depends on     *)
(* what the controller still had to do when the call got the lock, and on  *)
(* nothing else.  The command port is implemented by the same argument.    *)
(***************************************************************************)
EXTENDS TPS4CC, TLAPS

Inside  == {"clear", "drain", "command", "wait50", "ack", "wait250", "read"}
Labels  == {"idle", "lock"} \cup Inside
Waiting == {"wait50", "ack", "wait250"}

\* The parts of TypeOK.
CallerTypes ==
    /\ lock \in Callers \cup {NoCaller}
    /\ pc \in [Callers -> Labels]
    /\ \A c \in Callers : pc[c] \in Inside <=> lock = c
    /\ call \in [Callers -> Calls \cup {Nothing}]
    /\ result \in [Callers -> Contents]
    /\ calls \in 0 .. MaxCalls
    /\ clean \in [Callers -> BOOLEAN]
DeviceTypes ==
    /\ sem \in BOOLEAN /\ event \in BOOLEAN
    /\ cmd1 \in Calls \cup {Nothing, -1}
    /\ data1 \in Contents
    /\ running \in [of : Calls \cup {Nothing}, args : Calls \cup {Nothing}]

\* Where the controller is with the command of a caller.
HasArgs(c)  == call[c] \notin Bare => data1 = Args(call[c])
Asked(c)    == cmd1 = call[c] /\ running = Idle /\ HasArgs(c)
Working(c)  == cmd1 = call[c] /\ running = [of |-> call[c], args |-> call[c]]
Answered(c) == Quiet /\ cmd1 # Refused /\ data1 = Answer(call[c], call[c])
Denied      == running = Idle /\ cmd1 = Refused

\* What the owner of the lock may rely on at each of its places, if the controller had
\* nothing to do when it got the lock.
OwnerInv(c) ==
    /\ pc[c] \in {"clear", "drain", "command"} => Quiet /\ HasArgs(c)
    /\ pc[c] = "command" => ~sem
    /\ pc[c] \in Waiting => Asked(c) \/ Working(c) \/ Answered(c) \/ Denied
    /\ pc[c] \in Waiting /\ sem => Answered(c)
    /\ pc[c] = "read" => Answered(c)

CallInv   == \A c \in Callers : pc[c] # "idle" => call[c] \in Calls /\ result[c] = Garbage
OwnersInv == \A c \in Callers : lock = c /\ clean[c] => OwnerInv(c)
ResultInv == \A c \in Callers : clean[c] => result[c] \in {Garbage, Unread, Answer(call[c], call[c])}

IInv == TypeOK /\ CallInv /\ OwnersInv /\ ResultInv

-----------------------------------------------------------------------------
USE CallersAssumption, CallsAssumption, BareAssumption

LEMMA TypeParts == TypeOK <=> CallerTypes /\ DeviceTypes
<1>1. ASSUME pc \in [Callers -> Labels], NEW c \in Callers
      PROVE  pc[c] \notin {"idle", "lock"} <=> pc[c] \in Inside
    BY <1>1 DEF Labels, Inside
<1>2. pc \in [Callers -> Labels] <=> pc \in [Callers -> {"idle", "lock", "clear", "drain", "command",
                                                          "wait50", "ack", "wait250", "read"}]
    BY DEF Labels, Inside
<1> QED
    BY <1>1, <1>2 DEF TypeOK, CallerTypes, DeviceTypes

\* What the two registers may hold.
LEMMA ContentsType ==
    ASSUME NEW n \in Calls \cup {Nothing}, NEW a \in Calls \cup {Nothing}
    PROVE  Args(n) \in Contents /\ Answer(n, a) \in Contents /\ {Garbage, Unread} \subseteq Contents
    BY DEF Contents, Args, Answer, Garbage, Unread, Nothing

\* The owner's own move.
Moved(c, to) == pc' = [pc EXCEPT ![c] = to]

LEMMA MoveType ==
    ASSUME CallerTypes, NEW c \in Callers, NEW to \in Labels, Moved(c, to),
           UNCHANGED <<call, calls>>, result' \in [Callers -> Contents], clean' \in [Callers -> BOOLEAN],
           \/ lock = c /\ (IF to \in Inside THEN lock' = lock ELSE lock' = NoCaller)
           \/ lock = NoCaller /\ (IF to \in Inside THEN lock' = c ELSE lock' = lock)
           \/ pc[c] \notin Inside /\ to \notin Inside /\ lock' = lock
    PROVE  CallerTypes'
<1> USE DEF CallerTypes, Moved
<1>1. pc' \in [Callers -> Labels] /\ pc'[c] = to /\ \A d \in Callers \ {c} : pc'[d] = pc[d]
    OBVIOUS
<1>2. lock' \in Callers \cup {NoCaller}
    OBVIOUS
<1>3. \A d \in Callers : pc'[d] \in Inside <=> lock' = d
    BY <1>1
<1> QED
    BY <1>1, <1>2, <1>3

LEMMA EnterType == ASSUME CallerTypes, NEW c \in Callers, Enter(c) PROVE CallerTypes'
<1> USE DEF CallerTypes
<1>1. call' \in [Callers -> Calls \cup {Nothing}] /\ calls' \in 0 .. MaxCalls
    BY DEF Enter, Calls
<1>2. result' \in [Callers -> Contents]
    BY ContentsType DEF Enter, Nothing
<1>3. pc' \in [Callers -> Labels] /\ \A d \in Callers : pc'[d] \in Inside <=> lock' = d
    BY DEF Enter, Goto, Labels, Inside
<1> QED
    BY <1>1, <1>2, <1>3 DEF Enter

LEMMA BeginType ==
    ASSUME TypeOK, CallInv, NEW c \in Callers, Begin(c)
    PROVE  CallerTypes' /\ DeviceTypes'
<1>1. CallerTypes /\ DeviceTypes
    BY TypeParts
<1>2. lock = NoCaller /\ UNCHANGED <<call, result, calls, sem, cmd1, running, event>>
      /\ clean' \in [Callers -> BOOLEAN]
    BY <1>1 DEF Begin, LockFree, Quiet, CallerTypes
<1>3. call[c] \in Calls
    BY DEF Begin, CallInv
<1>4. /\ \/ Moved(c, "clear") /\ lock' = c
         \/ Moved(c, "idle") /\ UNCHANGED lock
      /\ data1' \in {data1, Args(call[c])}
    BY DEF Begin, Failing, Goto, Moved
<1>5. data1' \in Contents
    BY <1>1, <1>3, <1>4, ContentsType DEF DeviceTypes
<1>6. CallerTypes'
    BY <1>1, <1>2, <1>4, MoveType DEF Labels, Inside, CallerTypes
<1> QED
    BY <1>1, <1>2, <1>5, <1>6 DEF DeviceTypes

\* What a step of the driver does, whatever of it fails.
LEMMA DriverType ==
    ASSUME TypeOK, NEW c \in Callers, Driver(c)
    PROVE  CallerTypes' /\ DeviceTypes'
<1> USE DEF Goto, Return, Unlocked, Moved
<1>1. CallerTypes /\ DeviceTypes
    BY TypeParts
<1>2. pc[c] \in Inside /\ lock = c
    <2>1. pc[c] \in Inside
        BY DEF Driver, Clear, Drain, Command, TakeSem, Timeout50, CheckAck, Timeout250, Read, Inside
    <2> QED
        BY <1>1, <2>1 DEF CallerTypes
<1>3. CASE Clear(c) \/ Drain(c) \/ Timeout50(c) \/ TakeSem(c)
    <2>1. \E to \in Inside : Moved(c, to)
        BY <1>3 DEF Clear, Drain, TakeSem, Timeout50, Inside
    <2>2. UNCHANGED <<lock, call, result, calls, cmd1, data1, running, clean>>
        BY <1>3 DEF Clear, Drain, TakeSem, Timeout50, device
    <2>3. sem' \in BOOLEAN /\ event' \in BOOLEAN
        BY <1>1, <1>3 DEF Clear, Drain, Drained, TakeSem, Timeout50, Cleared, Failing, device, DeviceTypes
    <2>4. CallerTypes'
        BY <1>1, <1>2, <2>1, <2>2, MoveType DEF Labels, CallerTypes
    <2> QED
        BY <1>1, <2>2, <2>3, <2>4 DEF DeviceTypes
<1>4. CASE Command(c) \/ CheckAck(c) \/ Timeout250(c)
    <2>1. \/ Moved(c, "wait50") /\ lock' = lock
          \/ Moved(c, "wait250") /\ lock' = lock
          \/ Moved(c, "idle") /\ lock' = NoCaller
        BY <1>4 DEF Command, CheckAck, Timeout250
    <2>2. UNCHANGED <<call, result, calls, sem, data1, running, event, clean>>
        BY <1>4 DEF Command, CheckAck, Timeout250, device
    <2>3. cmd1' \in {cmd1, call[c]}
        BY <1>4 DEF Command, CheckAck, Timeout250, Failing, device
    <2>4. CallerTypes'
        BY <1>1, <1>2, <2>1, <2>2, MoveType DEF Labels, Inside, CallerTypes
    <2>5. cmd1' \in Calls \cup {Nothing, -1}
        BY <1>1, <2>3 DEF CallerTypes, DeviceTypes
    <2> QED
        BY <1>1, <2>2, <2>4, <2>5 DEF DeviceTypes
<1>5. CASE Read(c)
    <2>1. Moved(c, "idle") /\ lock' = NoCaller /\ UNCHANGED <<call, calls, sem, device, clean>>
        BY <1>5 DEF Read
    <2>2. result' \in [Callers -> Contents]
        <3>1. PICK got \in {data1, Unread} : result' = [result EXCEPT ![c] = got]
            BY <1>5 DEF Read
        <3>2. got \in Contents
            BY <1>1, ContentsType DEF DeviceTypes
        <3> QED
            BY <1>1, <3>1, <3>2 DEF CallerTypes
    <2>3. CallerTypes'
        BY <1>1, <1>2, <2>1, <2>2, MoveType DEF Labels, Inside, CallerTypes
    <2> QED
        BY <1>1, <2>1, <2>3 DEF DeviceTypes, device
<1> QED
    BY <1>3, <1>4, <1>5 DEF Driver

LEMMA ControllerType == ASSUME TypeOK, Controller PROVE CallerTypes' /\ DeviceTypes'
<1>1. CallerTypes /\ DeviceTypes
    BY TypeParts
<1>2. UNCHANGED <<lock, pc, call, result, calls, clean>>
    BY DEF Controller, Execute, Complete, Refuse
<1>3. CASE Execute
    <2>1. data1.kind = "args" => data1.of \in Calls \cup {Nothing}
        BY <1>1 DEF DeviceTypes, Contents
    <2>2. running' \in [of : Calls \cup {Nothing}, args : Calls \cup {Nothing}]
        BY <1>3, <2>1 DEF Execute
    <2> QED
        BY <1>1, <1>2, <1>3, <2>2 DEF Execute, CallerTypes, DeviceTypes
<1>4. CASE Complete
    <2>1. data1' \in Contents
        BY <1>1, <1>4, ContentsType DEF Complete, DeviceTypes
    <2>2. running' \in [of : Calls \cup {Nothing}, args : Calls \cup {Nothing}]
        BY <1>4 DEF Complete, Idle
    <2> QED
        BY <1>1, <1>2, <1>4, <2>1, <2>2 DEF Complete, CallerTypes, DeviceTypes
<1>5. CASE Refuse
    <2>1. running' \in [of : Calls \cup {Nothing}, args : Calls \cup {Nothing}]
        BY <1>5 DEF Refuse, Idle
    <2> QED
        BY <1>1, <1>2, <1>5, <2>1 DEF Refuse, Refused, CallerTypes, DeviceTypes
<1> QED
    BY <1>3, <1>4, <1>5 DEF Controller

LEMMA CallStep == ASSUME TypeOK, CallInv, [Next]_vars PROVE TypeOK' /\ CallInv'
<1>1. CallerTypes /\ DeviceTypes
    BY TypeParts
<1>2. ASSUME NEW c \in Callers, Enter(c) PROVE CallerTypes' /\ DeviceTypes' /\ CallInv'
    <2>1. CallerTypes'
        BY <1>1, <1>2, EnterType
    <2>2. DeviceTypes'
        BY <1>1, <1>2 DEF Enter, device, DeviceTypes
    <2>3. /\ call'[c] \in Calls /\ result'[c] = Garbage
          /\ \A d \in Callers \ {c} : call'[d] = call[d] /\ pc'[d] = pc[d] /\ result'[d] = result[d]
        BY <1>1, <1>2 DEF Enter, Goto, CallerTypes, Calls
    <2> QED
        BY <2>1, <2>2, <2>3 DEF CallInv
<1>3. ASSUME NEW c \in Callers, Begin(c) \/ Driver(c) PROVE CallerTypes' /\ DeviceTypes' /\ CallInv'
    <2>1. CallerTypes' /\ DeviceTypes'
        BY <1>3, BeginType, DriverType
    <2>2. /\ UNCHANGED call /\ pc[c] # "idle"
          /\ \E to \in Labels : Moved(c, to) /\ (to = "idle" \/ UNCHANGED result)
          /\ \A d \in Callers \ {c} : result'[d] = result[d]
        BY <1>1, <1>3 DEF Begin, Driver, Clear, Drain, Command, TakeSem, Timeout50, CheckAck, Timeout250, Read,
                    Goto, Return, Moved, Labels, Inside, CallerTypes
    <2> QED
        BY <1>1, <2>1, <2>2 DEF CallInv, CallerTypes, Moved
<1>4. ASSUME Controller PROVE CallerTypes' /\ DeviceTypes' /\ CallInv'
    <2>1. UNCHANGED <<call, pc, result>>
        BY <1>4 DEF Controller, Execute, Complete, Refuse
    <2> QED
        BY <1>4, <2>1, ControllerType DEF CallInv
<1>5. CASE UNCHANGED vars
    BY <1>5 DEF vars, device, TypeOK, CallInv
<1>6. TypeOK' <=> CallerTypes' /\ DeviceTypes'
    BY TypeParts, PTL
<1> QED
    BY <1>2, <1>3, <1>4, <1>5, <1>6 DEF Next

-----------------------------------------------------------------------------
Others(c) == \A d \in Callers \ {c} : pc'[d] = pc[d] /\ call'[d] = call[d] /\ clean'[d] = clean[d]

\* A caller that waits for the lock, or comes to do so, disturbs nobody.
LEMMA EnterStep ==
    ASSUME IInv, NEW c \in Callers, Enter(c)
    PROVE  OwnersInv' /\ ResultInv'
<1>1. CallerTypes
    BY TypeParts DEF IInv
<1>2. lock # c /\ UNCHANGED <<lock, sem, cmd1, data1, running, event>> /\ Others(c)
    BY <1>1 DEF Enter, device, CallerTypes, Inside, Goto, Others
<1>3. OwnersInv'
    BY <1>2 DEF IInv, OwnersInv, OwnerInv, Others, Quiet, HasArgs, Asked, Working, Answered, Denied
<1>4. ResultInv'
    BY <1>1, <1>2 DEF Enter, Others, CallerTypes, IInv, ResultInv
<1> QED
    BY <1>3, <1>4

LEMMA BeginStep ==
    ASSUME IInv, NEW c \in Callers, Begin(c)
    PROVE  OwnersInv' /\ ResultInv'
<1>1. CallerTypes
    BY TypeParts DEF IInv
<1>2. lock = NoCaller /\ UNCHANGED <<call, result, calls, sem, cmd1, running, event>>
      /\ clean'[c] = Quiet /\ Others(c)
    BY <1>1 DEF Begin, Goto, LockFree, Others, CallerTypes
<1>3. ResultInv'
    <2>1. result[c] = Garbage
        BY DEF Begin, IInv, CallInv
    <2> QED
        BY <1>2, <2>1 DEF Others, IInv, ResultInv
<1>4. CASE lock' = lock
    BY <1>2, <1>3, <1>4 DEF OwnersInv
<1>5. CASE lock' = c /\ pc' = [pc EXCEPT ![c] = "clear"]
           /\ (call[c] \in Bare \/ data1' = Args(call[c]))
    <2>1. clean'[c] => OwnerInv(c)'
        BY <1>1, <1>2, <1>5 DEF CallerTypes, OwnerInv, HasArgs, Waiting, Quiet
    <2> QED
        BY <1>3, <1>5, <2>1 DEF OwnersInv
<1> QED
    BY <1>4, <1>5 DEF Begin, Goto

\* The owner of the lock goes on, or gives it back.
LEMMA DriverStep ==
    ASSUME IInv, NEW c \in Callers, Driver(c)
    PROVE  OwnersInv' /\ ResultInv'
<1> USE DEF Goto, Return, Unlocked
<1>1. CallerTypes /\ DeviceTypes
    BY TypeParts DEF IInv
<1>2. pc[c] \in Inside /\ lock = c /\ call[c] \in Calls
    <2>1. pc[c] \in Inside
        BY DEF Driver, Clear, Drain, Command, TakeSem, Timeout50, CheckAck, Timeout250, Read, Inside
    <2> QED
        BY <1>1, <2>1 DEF CallerTypes, IInv, CallInv, Inside
<1>3. UNCHANGED <<call, clean>>
    BY DEF Driver, Clear, Drain, Command, TakeSem, Timeout50, CheckAck, Timeout250, Read
<1>4. SUFFICES ASSUME clean[c]
               PROVE  \/ lock' = c /\ OwnerInv(c)' /\ result' = result
                      \/ lock' = NoCaller /\ ResultInv'
    <2>1. lock' \in {c, NoCaller} /\ \A d \in Callers \ {c} : result'[d] = result[d]
        BY <1>1, <1>2 DEF Driver, Clear, Drain, Command, TakeSem, Timeout50, CheckAck, Timeout250, Read,
                          device, CallerTypes
    <2> QED
        BY <1>2, <1>3, <2>1 DEF OwnersInv, ResultInv, IInv
<1>5. OwnerInv(c)
    BY <1>2, <1>4 DEF IInv, OwnersInv
<1>6. CASE Clear(c)
    <2>1. pc[c] = "clear" /\ pc'[c] = "drain" /\ UNCHANGED <<lock, result, cmd1, data1, running>>
        BY <1>1, <1>6 DEF Clear, CallerTypes
    <2> QED
        BY <1>2, <1>3, <1>5, <2>1 DEF OwnerInv, Waiting, Quiet, HasArgs
<1>7. CASE Drain(c)
    <2>1. pc[c] = "drain" /\ pc'[c] = "command" /\ ~sem'
          /\ UNCHANGED <<lock, result, cmd1, data1, running>>
        BY <1>1, <1>7 DEF Drain, Drained, device, CallerTypes
    <2> QED
        BY <1>2, <1>3, <1>5, <2>1 DEF OwnerInv, Waiting, Quiet, HasArgs
<1>8. CASE Command(c)
    <2>1. pc[c] = "command" /\ UNCHANGED <<result, sem, data1, running>>
          /\ \/ lock' = NoCaller
             \/ lock' = lock /\ cmd1' = call[c] /\ pc'[c] = "wait50"
        BY <1>1, <1>8 DEF Command, CallerTypes
    <2>2. Quiet /\ HasArgs(c) /\ ~sem
        BY <1>5, <2>1 DEF OwnerInv
    <2>3. CASE lock' = NoCaller
        BY <1>3, <2>1, <2>3 DEF ResultInv, IInv
    <2>4. CASE lock' = lock /\ cmd1' = call[c] /\ pc'[c] = "wait50"
        <3>1. Asked(c)' /\ ~sem'
            BY <1>3, <2>1, <2>2, <2>4 DEF Asked, Quiet, HasArgs
        <3> QED
            BY <1>2, <2>1, <2>4, <3>1 DEF OwnerInv
    <2> QED
        BY <2>1, <2>3, <2>4
<1>9. CASE TakeSem(c)
    <2>1. pc[c] \in Waiting /\ sem /\ pc'[c] = "read" /\ UNCHANGED <<lock, result, cmd1, data1, running>>
        BY <1>1, <1>9 DEF TakeSem, device, CallerTypes, Waiting
    <2>2. Answered(c)'
        BY <1>3, <1>5, <2>1 DEF OwnerInv, Answered, Quiet
    <2> QED
        BY <1>2, <2>1, <2>2 DEF OwnerInv, Waiting
<1>10. CASE Timeout50(c)
    <2>1. pc[c] = "wait50" /\ pc'[c] = "ack"
          /\ UNCHANGED <<lock, result, sem, cmd1, data1, running>>
        BY <1>1, <1>10 DEF Timeout50, device, CallerTypes
    <2> QED
        BY <1>2, <1>3, <1>5, <2>1 DEF OwnerInv, Waiting, Asked, Working, Answered, Denied, Quiet, HasArgs
<1>11. CASE CheckAck(c)
    <2>1. pc[c] = "ack" /\ UNCHANGED <<result, sem, cmd1, data1, running>>
          /\ \/ lock' = NoCaller
             \/ lock' = lock /\ pc'[c] = "wait250"
        BY <1>1, <1>11 DEF CheckAck, device, CallerTypes
    <2>2. CASE lock' = NoCaller
        BY <1>3, <2>1, <2>2 DEF ResultInv, IInv
    <2>3. CASE lock' = lock /\ pc'[c] = "wait250"
        BY <1>2, <1>3, <1>5, <2>1, <2>3
           DEF OwnerInv, Waiting, Asked, Working, Answered, Denied, Quiet, HasArgs
    <2> QED
        BY <2>1, <2>2, <2>3
<1>12. CASE Timeout250(c)
    BY <1>3, <1>12 DEF Timeout250, ResultInv, IInv
<1>13. CASE Read(c)
    <2>1. data1 = Answer(call[c], call[c]) /\ lock' = NoCaller
        BY <1>5, <1>13 DEF Read, OwnerInv, Answered
    <2>2. PICK got \in {data1, Unread} : result' = [result EXCEPT ![c] = got]
        BY <1>13 DEF Read
    <2>3. ResultInv'
        BY <1>1, <1>3, <2>1, <2>2 DEF ResultInv, IInv, CallerTypes, Answer, Garbage, Unread
    <2> QED
        BY <2>1, <2>3
<1> QED
    BY <1>6, <1>7, <1>8, <1>9, <1>10, <1>11, <1>12, <1>13 DEF Driver

\* The controller works for the owner of the lock, if it had nothing to do before.
LEMMA ControllerStep ==
    ASSUME IInv, Controller
    PROVE  OwnersInv' /\ ResultInv'
<1>1. CallerTypes /\ DeviceTypes
    BY TypeParts DEF IInv
<1>2. UNCHANGED <<lock, pc, call, result, calls, clean>> /\ ~Quiet
    BY DEF Controller, Execute, Complete, Refuse, Quiet
<1>3. ResultInv'
    BY <1>2 DEF IInv, ResultInv
<1>4. SUFFICES ASSUME NEW c \in Callers, lock = c, clean[c] PROVE OwnerInv(c)'
    BY <1>2, <1>3 DEF OwnersInv
<1>5. call[c] \in Calls /\ call[c] # Nothing
    BY <1>1, <1>4 DEF CallerTypes, Inside, IInv, CallInv, Calls, Nothing
<1>6. ~sem /\ pc[c] \in Waiting /\ (Asked(c) \/ Working(c)) /\ cmd1 = call[c]
    <2>1. pc[c] \in Waiting /\ ~Answered(c) /\ ~Denied
        BY <1>1, <1>2, <1>4 DEF CallerTypes, IInv, OwnersInv, OwnerInv, Inside, Waiting, Answered, Denied,
                                Quiet, Refused, Calls
    <2> QED
        BY <1>4, <2>1 DEF IInv, OwnersInv, OwnerInv, Asked, Working
<1>7. SUFFICES (Working(c)' /\ ~sem') \/ Answered(c)' \/ (Denied' /\ ~sem')
    BY <1>2, <1>4, <1>6 DEF OwnerInv, Waiting
<1>8. [of |-> call[c], args |-> call[c]] # Idle
    BY <1>5 DEF Idle
<1>9. CASE Execute
    <2>1. Asked(c)
        BY <1>6, <1>8, <1>9 DEF Execute, Working
    <2>2. running' = [of |-> call[c], args |-> call[c]]
        BY <1>6, <1>9, <2>1 DEF Execute, Asked, HasArgs, Args
    <2> QED
        BY <1>2, <1>6, <1>9, <2>2 DEF Execute, Working
<1>10. CASE Complete
    <2>1. running = [of |-> call[c], args |-> call[c]]
        BY <1>6, <1>10 DEF Complete, Asked, Working
    <2>2. data1' = Answer(call[c], call[c]) /\ cmd1' = Nothing /\ running' = Idle
        BY <1>6, <1>10, <2>1 DEF Complete
    <2>3. Quiet' /\ cmd1' # Refused
        BY <2>2 DEF Quiet, Calls, Nothing, Refused
    <2>4. data1' = Answer(call'[c], call'[c])
        BY <1>2, <2>2, Zenon
    <2> QED
        BY <2>3, <2>4 DEF Answered, Answer
<1>11. CASE Refuse
    <2>1. running = [of |-> call[c], args |-> call[c]]
        BY <1>6, <1>11 DEF Refuse, Asked, Working
    <2> QED
        BY <1>6, <1>11, <2>1 DEF Refuse, Denied
<1> QED
    BY <1>9, <1>10, <1>11 DEF Controller

LEMMA AnswerStep ==
    ASSUME IInv, [Next]_vars
    PROVE  IInv'
<1>1. TypeOK' /\ CallInv'
    BY CallStep DEF IInv
<1>2. CASE UNCHANGED vars
    BY <1>1, <1>2 DEF vars, device, IInv, OwnersInv, OwnerInv, ResultInv, Quiet, HasArgs, Asked,
                      Working, Answered, Denied
<1> QED
    BY <1>1, <1>2, EnterStep, BeginStep, DriverStep, ControllerStep DEF Next, IInv

LEMMA InitInv == Init => IInv
<1> SUFFICES ASSUME Init PROVE IInv
    OBVIOUS
<1>1. CallerTypes
    <2>1. pc \in [Callers -> Labels] /\ call \in [Callers -> Calls \cup {Nothing}]
        BY DEF Init, Labels
    <2>2. result \in [Callers -> Contents] /\ calls \in 0 .. MaxCalls
        BY ContentsType DEF Init, Nothing
    <2>3. \A c \in Callers : pc[c] \in Inside <=> lock = c
        BY DEF Init, Inside
    <2> QED
        BY <2>1, <2>2, <2>3 DEF Init, CallerTypes
<1>2. DeviceTypes
    <2>1. data1 \in Contents
        BY ContentsType DEF Init
    <2>2. running \in [of : Calls \cup {Nothing}, args : Calls \cup {Nothing}]
        BY DEF Init, Idle
    <2> QED
        BY <2>1, <2>2 DEF Init, DeviceTypes
<1>3. CallInv /\ OwnersInv /\ ResultInv
    BY DEF Init, CallInv, OwnersInv, ResultInv
<1> QED
    BY <1>1, <1>2, <1>3, TypeParts DEF IInv

-----------------------------------------------------------------------------
\* Whatever fails and however late the controller is: the lock has the one owner that
\* is inside write_4CC(), and CMD1 and DATA1 hold what a call or the controller wrote.
THEOREM TypeCorrect == Spec => []TypeOK
<1>1. Init => TypeOK /\ CallInv
    BY InitInv DEF IInv
<1>2. TypeOK /\ CallInv /\ [Next]_vars => (TypeOK /\ CallInv)'
    BY CallStep
<1> QED
    BY <1>1, <1>2, PTL DEF Spec

\* A write_4CC() that gets the lock when the controller has nothing to do never gets the
\* answer to another command or to other arguments, among any number of threads, however
\* late the controller is, and whatever reads, writes, refusals or signals fail.
THEOREM AnswersMatch == Spec => []AnswerMatches
<1>1. IInv /\ [Next]_vars => IInv'
    BY AnswerStep
<1>2. IInv => AnswerMatches
    <2> SUFFICES ASSUME IInv PROVE AnswerMatches
        OBVIOUS
    <2>1. ASSUME NEW c \in Callers, clean[c], pc[c] = "read"
          PROVE  data1 = Answer(call[c], call[c])
        <3>1. lock = c
            BY <2>1, TypeParts DEF IInv, CallerTypes, Inside
        <3> QED
            BY <2>1, <3>1 DEF IInv, OwnersInv, OwnerInv, Answered
    <2> QED
        BY <2>1 DEF IInv, ResultInv, AnswerMatches
<1> QED
    BY InitInv, <1>1, <1>2, PTL DEF Spec

-----------------------------------------------------------------------------
(* The command port: every step of write_4CC() and of the controller is a step of *)
(* CommandPort, or leaves it as it is.                                            *)

HasPort(c, s) == InPort = [of |-> call[c], step |-> s]

\* What InPort is at each place of the owner.
PortInv ==
    /\ lock = NoCaller => InPort = IF Quiet THEN Port!Free ELSE Port!Lost
    /\ \A c \in Callers : lock = c =>
        /\ ~clean[c] => InPort = Port!Lost
        /\ clean[c] /\ pc[c] \in {"clear", "drain", "command"} => InPort = Port!Free
        /\ clean[c] /\ pc[c] \in Waiting \cup {"read"} =>
              /\ Asked(c) \/ Working(c) => HasPort(c, "given")
              /\ Answered(c) => HasPort(c, "executed")
              /\ Denied => HasPort(c, "refused")

LEMMA PortCases == IInv => PortInv
<1> SUFFICES ASSUME IInv PROVE PortInv
    OBVIOUS
<1> USE DEF Nothing, Port!Free, Port!Lost, Port!Nothing, InPort
<1>1. lock = NoCaller => InPort = IF Quiet THEN Port!Free ELSE Port!Lost
    OBVIOUS
<1>2. ASSUME NEW c \in Callers, lock = c
      PROVE  /\ ~clean[c] => InPort = Port!Lost
             /\ clean[c] /\ pc[c] \in {"clear", "drain", "command"} => InPort = Port!Free
    BY <1>2
<1>3. ASSUME NEW c \in Callers, lock = c, clean[c], pc[c] \in Waiting \cup {"read"}
      PROVE  /\ Asked(c) \/ Working(c) => HasPort(c, "given")
             /\ Answered(c) => HasPort(c, "executed")
             /\ Denied => HasPort(c, "refused")
    <2>1. call[c] \in Calls /\ Refused \notin Calls
        BY <1>3 DEF IInv, CallInv, Calls, Waiting, Refused
    <2>2. pc[lock] \in {"wait50", "ack", "wait250", "read"} /\ lock # NoCaller
        BY <1>3 DEF Waiting
    <2> QED
        BY <1>3, <2>1, <2>2 DEF HasPort, Asked, Working, Answered, Denied, Quiet
<1> QED
    BY <1>1, <1>2, <1>3 DEF PortInv

\* A caller inside a call, and one that leaves it.
LEMMA CallGoesOn ==
    ASSUME pc \in [Callers -> Labels], NEW c \in Callers, NEW to, Moved(c, to),
           pc[c] # "idle", UNCHANGED call
    PROVE  /\ Current[c] = call[c]
           /\ to # "idle" => Current' = Current
           /\ to = "idle" => Current' = [Current EXCEPT ![c] = Nothing]
    BY DEF Current, Moved

\* The results as the port has them.
LEMMA SameResults == ASSUME UNCHANGED <<call, result>> PROVE Got' = Got
    BY DEF Got, Answer, Garbage, Unread

LEMMA NewResult ==
    ASSUME result \in [Callers -> Contents], UNCHANGED call, NEW c \in Callers, NEW x,
           result' = [result EXCEPT ![c] = x]
    PROVE  \E r : /\ Got' = [Got EXCEPT ![c] = r]
                  /\ r \in {Nothing, -1, call[c], -2}
                  /\ x = Unread => r = -1
                  /\ x = Answer(call[c], call[c]) => r = call[c]
<1>1. result'[c] = x /\ \A d \in Callers \ {c} : result'[d] = result[d]
    OBVIOUS
<1>2. \A d \in Callers \ {c} : Got'[d] = Got[d]
    BY <1>1 DEF Got, Answer, Garbage, Unread
<1>3. /\ Got'[c] \in {Nothing, -1, call[c], -2}
      /\ x = Unread => Got'[c] = -1
      /\ x = Answer(call[c], call[c]) => Got'[c] = call[c]
    BY <1>1 DEF Got, Answer, Garbage, Unread
<1>4. Got' = [Got EXCEPT ![c] = Got'[c]]
    <2>1. Got = [d \in Callers |-> Got[d]] /\ Got' = [d \in Callers |-> Got'[d]]
        BY DEF Got
    <2> QED
        BY <1>2, <2>1
<1> QED
    BY <1>3, <1>4

LEMMA EnterServes ==
    ASSUME IInv, NEW c \in Callers, Enter(c)
    PROVE  Port!Call(c)
<1>1. CallerTypes
    BY TypeParts DEF IInv
<1>2. pc[c] = "idle" /\ calls < MaxCalls /\ calls' = calls + 1 /\ Current[c] = Nothing
    BY DEF Enter, Current
<1>3. Current' = [Current EXCEPT ![c] = calls + 1]
    BY <1>1 DEF Enter, Goto, Current, CallerTypes
<1>4. Got' = [Got EXCEPT ![c] = Nothing]
    <2>1. call' = [call EXCEPT ![c] = calls + 1] /\ result' = [result EXCEPT ![c] = Garbage]
        BY DEF Enter
    <2>2. ASSUME NEW d \in Callers PROVE Got'[d] = IF d = c THEN Nothing ELSE Got[d]
        <3>1. CASE d = c
            <4>1. result'[c] = Garbage
                BY <1>1, <2>1 DEF CallerTypes
            <4> QED
                BY <3>1, <4>1 DEF Got, Answer, Garbage, Unread
        <3>2. CASE d # c
            <4>1. call'[d] = call[d] /\ result'[d] = result[d]
                BY <1>1, <2>1, <3>2 DEF CallerTypes
            <4> QED
                BY <3>2, <4>1 DEF Got, Answer, Garbage, Unread
        <3> QED
            BY <3>1, <3>2
    <2> QED
        BY <2>2 DEF Got
<1>5. InPort' = InPort
    <2>1. UNCHANGED <<lock, cmd1, running, clean>> /\ lock # c
        BY <1>1, <1>2 DEF Enter, device, CallerTypes, Inside
    <2>2. lock # NoCaller => pc'[lock] = pc[lock] /\ call'[lock] = call[lock]
        BY <1>1, <2>1 DEF Enter, Goto, CallerTypes
    <2> QED
        BY <2>1, <2>2 DEF InPort, Quiet
<1> QED
    BY <1>2, <1>3, <1>4, <1>5 DEF Port!Call, Port!Nothing, Nothing

LEMMA BeginServes ==
    ASSUME IInv, IInv', NEW c \in Callers, Begin(c)
    PROVE  Port!GiveUp(c) \/ UNCHANGED <<Current, calls, InPort, Got>>
<1>1. CallerTypes
    BY TypeParts DEF IInv
<1>2. PortInv /\ PortInv'
    BY PortCases, PTL
<1>3. lock = NoCaller /\ pc[c] = "lock" /\ UNCHANGED <<call, result, calls, cmd1, running>>
      /\ clean'[c] = Quiet
    BY <1>1 DEF Begin, LockFree, CallerTypes
<1>4. /\ InPort = IF Quiet THEN Port!Free ELSE Port!Lost
      /\ Got' = Got /\ call[c] \in Calls /\ Quiet' = Quiet
    BY <1>2, <1>3, SameResults DEF PortInv, IInv, CallInv, Quiet
<1>5. CASE Goto(c, "clear") /\ lock' = c
    <2>1. Moved(c, "clear") /\ pc[c] # "idle" /\ pc \in [Callers -> Labels] /\ pc'[c] = "clear"
        BY <1>1, <1>3, <1>5 DEF Goto, Moved, CallerTypes
    <2>2. InPort' = InPort
        BY <1>2, <1>3, <1>4, <1>5, <2>1 DEF PortInv, Port!Free, Port!Lost, Port!Nothing
    <2>3. Current' = Current
        BY <1>3, <2>1, CallGoesOn
    <2> QED
        BY <1>3, <1>4, <2>2, <2>3
<1>6. CASE Goto(c, "idle") /\ lock' = lock
    <2>1. InPort' = InPort
        BY <1>2, <1>3, <1>4, <1>6 DEF PortInv, Port!Free, Port!Lost, Port!Nothing
    <2>2. Current[c] = call[c] /\ Current' = [Current EXCEPT ![c] = Nothing]
        BY <1>1, <1>3, <1>6, CallGoesOn DEF Goto, Moved, CallerTypes
    <2> QED
        BY <1>3, <1>4, <2>1, <2>2
           DEF Port!GiveUp, Port!Leave, Port!Free, Port!Lost, Port!Nothing, Nothing, Calls
<1> QED
    BY <1>5, <1>6 DEF Begin

\* The owner's steps inside its call: only the command itself shows at the port.
LEMMA InsideServes ==
    ASSUME IInv, IInv', NEW c \in Callers, Driver(c), lock' = c
    PROVE  Port!Give(c) \/ UNCHANGED <<Current, calls, InPort, Got>>
<1> USE DEF Goto, Return, Unlocked
<1>1. CallerTypes
    BY TypeParts DEF IInv
<1>2. pc[c] \in Inside /\ lock = c /\ pc[c] # "idle" /\ lock # NoCaller
    <2>1. pc[c] \in Inside
        BY DEF Driver, Clear, Drain, Command, TakeSem, Timeout50, CheckAck, Timeout250, Read, Inside
    <2> QED
        BY <1>1, <2>1 DEF CallerTypes, Inside
<1>3. UNCHANGED <<call, calls, clean, result, running>> /\ call[c] \in Calls /\ call[c] # Nothing
    BY <1>2 DEF Driver, Clear, Drain, Command, TakeSem, Timeout50, CheckAck, Timeout250, Read, device,
                IInv, CallInv, Calls, Nothing
<1>4. \/ pc[c] = "clear" /\ Moved(c, "drain") /\ cmd1' = cmd1
      \/ pc[c] = "drain" /\ Moved(c, "command") /\ cmd1' = cmd1
      \/ pc[c] = "command" /\ Moved(c, "wait50") /\ cmd1' = call[c]
      \/ pc[c] \in Waiting /\ (\E to \in {"ack", "wait250", "read"} : Moved(c, to)) /\ cmd1' = cmd1
    BY <1>2 DEF Driver, Clear, Drain, Command, TakeSem, Timeout50, CheckAck, Timeout250, Read, device,
                Moved, Waiting
<1>5. Current' = Current /\ Got' = Got /\ Current[c] = call[c]
    <2>1. PICK to \in Inside : Moved(c, to) /\ to # "idle"
        BY <1>4 DEF Inside
    <2> QED
        BY <1>1, <1>2, <1>3, <2>1, CallGoesOn, SameResults DEF CallerTypes
<1>6. CASE clean[c] /\ pc[c] = "command"
    <2>1. InPort = Port!Free /\ Quiet
        <3>1. PortInv
            BY PortCases
        <3> QED
            BY <1>2, <1>6, <3>1 DEF PortInv, IInv, OwnersInv, OwnerInv
    <2>2. pc'[c] = "wait50" /\ cmd1' = call[c]
        BY <1>1, <1>4, <1>6 DEF Moved, CallerTypes, Waiting
    <2>3. InPort' = [of |-> call[c], step |-> "given"]
        BY <1>2, <1>3, <1>6, <2>2 DEF InPort, Quiet
    <2> QED
        BY <1>3, <1>5, <2>1, <2>3 DEF Port!Give, Port!Nothing, Nothing
<1>7. CASE ~(clean[c] /\ pc[c] = "command")
    <2>1. InPort' = InPort
        <3>1. CASE ~clean[c]
            BY <1>2, <1>3, <3>1 DEF InPort
        <3>2. CASE clean[c] /\ pc[c] \in {"clear", "drain"}
            <4>1. pc'[c] \in {"drain", "command"} /\ cmd1' = cmd1
                BY <1>1, <1>4, <3>2 DEF Moved, CallerTypes, Waiting
            <4> QED
                BY <1>2, <1>3, <3>2, <4>1 DEF InPort
        <3>3. CASE clean[c] /\ pc[c] \in Waiting
            <4>1. pc'[c] \in {"ack", "wait250", "read"} /\ cmd1' = cmd1
                BY <1>1, <1>4, <3>3 DEF Moved, CallerTypes, Waiting
            <4> QED
                BY <1>2, <1>3, <3>3, <4>1 DEF InPort, Quiet, Waiting
        <3> QED
            BY <1>4, <1>7, <3>1, <3>2, <3>3
    <2> QED
        BY <1>3, <1>5, <2>1
<1> QED
    BY <1>6, <1>7

\* The owner gives the lock back: its command is done, or lost with the port.
LEMMA LeaveServes ==
    ASSUME IInv, IInv', NEW c \in Callers, Driver(c), lock' # c
    PROVE  Port!GiveUp(c) \/ Port!Return(c) \/ Port!Abandon(c) \/ Port!Stray(c)
<1> USE DEF Goto, Return, Unlocked
<1>1. CallerTypes
    BY TypeParts DEF IInv
<1>2. pc[c] \in Inside /\ lock = c /\ pc[c] # "idle"
    <2>1. pc[c] \in Inside
        BY DEF Driver, Clear, Drain, Command, TakeSem, Timeout50, CheckAck, Timeout250, Read, Inside
    <2> QED
        BY <1>1, <2>1 DEF CallerTypes, Inside
<1>3. /\ UNCHANGED <<call, calls, clean, running>> /\ call[c] \in Calls /\ call[c] # Nothing
      /\ lock' = NoCaller /\ Moved(c, "idle")
    BY <1>2 DEF Driver, Clear, Drain, Command, TakeSem, Timeout50, CheckAck, Timeout250, Read, device,
                IInv, CallInv, Calls, Nothing, Moved
<1>4. \/ pc[c] = "command" /\ cmd1' \in {cmd1, call[c]} /\ UNCHANGED result
      \/ pc[c] \in Waiting /\ cmd1' = cmd1 /\ UNCHANGED result
      \/ pc[c] = "read" /\ cmd1' = cmd1 /\ \E x \in {data1, Unread} : result' = [result EXCEPT ![c] = x]
    BY <1>2, <1>3 DEF Driver, Clear, Drain, Command, TakeSem, Timeout50, CheckAck, Timeout250, Read, device,
                Failing, Waiting
<1>5. Current[c] = call[c] /\ Current' = [Current EXCEPT ![c] = Nothing]
    BY <1>1, <1>2, <1>3, CallGoesOn DEF CallerTypes
<1>6. Port!Leave(c)
    BY <1>3, <1>5 DEF Port!Leave, Port!Nothing, Nothing
<1>7. InPort' = IF Quiet' THEN Port!Free ELSE Port!Lost
    <2>1. PortInv'
        BY PortCases, PTL
    <2> QED
        BY <1>3, <2>1 DEF PortInv
<1>8. PortInv
    BY PortCases
<1>9. UNCHANGED result => Got' = Got
    BY <1>3, SameResults
<1>10. PICK x : result' = [result EXCEPT ![c] = x] /\ (pc[c] = "read" => x \in {data1, Unread})
    <2>1. UNCHANGED result => result' = [result EXCEPT ![c] = result[c]]
        BY <1>1 DEF CallerTypes
    <2> QED
        BY <1>4, <2>1 DEF Waiting
<1>11. PICK r : /\ Got' = [Got EXCEPT ![c] = r]
                /\ r \in {Nothing, -1, call[c], -2}
                /\ x = Unread => r = -1
                /\ x = Answer(call[c], call[c]) => r = call[c]
    BY <1>1, <1>3, <1>10, NewResult DEF CallerTypes
<1>12. CASE ~clean[c]
    <2>1. InPort = Port!Lost
        BY <1>2, <1>8, <1>12 DEF PortInv
    <2>2. r \in Port!Results
        BY <1>3, <1>11 DEF Port!Results, Port!Nothing, Port!NoAnswer, Port!Foreign, Calls, Nothing
    <2> QED
        BY <1>6, <1>7, <1>11, <2>1, <2>2 DEF Port!Stray
<1>13. CASE clean[c] /\ pc[c] = "command"
    <2>1. InPort = Port!Free /\ UNCHANGED result
        BY <1>2, <1>4, <1>8, <1>13 DEF PortInv, Waiting
    <2>2. CASE Quiet'
        BY <1>3, <1>5, <1>6, <1>7, <1>9, <2>1, <2>2 DEF Port!GiveUp, Port!Free, Port!Nothing, Nothing
    <2>3. CASE ~Quiet'
        BY <1>6, <1>7, <1>9, <2>1, <2>3 DEF Port!Abandon
    <2> QED
        BY <2>2, <2>3
<1>14. CASE clean[c] /\ pc[c] \in Waiting
    <2>1. UNCHANGED result /\ (Quiet' <=> Quiet)
        BY <1>3, <1>4, <1>14 DEF Waiting, Quiet
    <2>2. OwnerInv(c)
        BY <1>2, <1>14 DEF IInv, OwnersInv
    <2>3. CASE Asked(c) \/ Working(c)
        <3>1. HasPort(c, "given") /\ ~Quiet
            BY <1>2, <1>3, <1>8, <1>14, <2>3 DEF PortInv, Asked, Working, Quiet
        <3> QED
            BY <1>5, <1>6, <1>7, <1>9, <2>1, <3>1 DEF Port!Abandon, HasPort
    <2>4. CASE Answered(c) \/ Denied
        <3>1. (HasPort(c, "executed") \/ HasPort(c, "refused")) /\ Quiet
            BY <1>2, <1>8, <1>14, <2>4 DEF PortInv, Answered, Denied, Quiet, Refused, Calls
        <3> QED
            BY <1>5, <1>6, <1>7, <1>9, <2>1, <3>1 DEF Port!Return, HasPort
    <2> QED
        BY <1>14, <2>2, <2>3, <2>4 DEF OwnerInv
<1>15. CASE clean[c] /\ pc[c] = "read"
    <2>1. Answered(c) /\ (Quiet' <=> Quiet)
        BY <1>2, <1>3, <1>4, <1>15 DEF IInv, OwnersInv, OwnerInv, Waiting, Quiet
    <2>2. HasPort(c, "executed") /\ Quiet
        BY <1>2, <1>8, <1>15, <2>1 DEF PortInv, Answered
    <2>3. x = Unread \/ x = Answer(call[c], call[c])
        BY <1>10, <1>15, <2>1 DEF Answered
    <2>4. r \in {Current[c], Port!NoAnswer}
        BY <1>5, <1>11, <2>3 DEF Port!NoAnswer
    <2> QED
        BY <1>5, <1>6, <1>7, <1>11, <2>1, <2>2, <2>4 DEF Port!Return, HasPort
<1> QED
    BY <1>4, <1>12, <1>13, <1>14, <1>15

\* The controller's steps: only that it is done shows.
LEMMA ControllerServes ==
    ASSUME IInv, IInv', Controller
    PROVE  Port!Finish \/ Port!Recover \/ UNCHANGED <<Current, calls, InPort, Got>>
<1>1. CallerTypes /\ CallerTypes'
    BY TypeParts, PTL DEF IInv
<1>2. UNCHANGED <<lock, pc, call, result, calls, clean>> /\ ~Quiet
    BY DEF Controller, Execute, Complete, Refuse, Quiet
<1>3. Current' = Current /\ Got' = Got
    BY <1>2, SameResults DEF Current
<1>4. PortInv /\ PortInv'
    BY PortCases, PTL
<1>5. CASE lock = NoCaller
    <2>1. InPort = Port!Lost /\ InPort' \in {Port!Free, Port!Lost}
        BY <1>2, <1>4, <1>5 DEF PortInv, Port!Free, Port!Lost, Port!Nothing
    <2> QED
        BY <1>2, <1>3, <2>1 DEF Port!Recover, Port!Free, Port!Lost, Port!Nothing
<1>6. ASSUME NEW c \in Callers, lock = c, ~clean[c] PROVE UNCHANGED InPort
    BY <1>2, <1>4, <1>6 DEF PortInv, Port!Lost, Port!Nothing
<1>7. ASSUME NEW c \in Callers, lock = c, clean[c]
      PROVE  Port!Finish \/ UNCHANGED <<Current, calls, InPort, Got>>
    <2>1. call[c] \in Calls /\ pc[c] \in Waiting /\ (Asked(c) \/ Working(c))
        <3>1. call[c] \in Calls /\ pc[c] \in Waiting \cup {"read"}
            BY <1>1, <1>2, <1>7 DEF CallerTypes, IInv, CallInv, OwnersInv, OwnerInv, Inside, Waiting
        <3>2. ~Answered(c) /\ ~Denied
            BY <1>2 DEF Answered, Denied, Quiet, Refused, Calls
        <3> QED
            BY <1>7, <3>1, <3>2 DEF IInv, OwnersInv, OwnerInv
    <2>2. HasPort(c, "given") /\ cmd1 = call[c]
        BY <1>4, <1>7, <2>1 DEF PortInv, Asked, Working
    <2>3. CASE Execute
        <3>1. running' # Idle /\ lock # NoCaller
            BY <1>7, <2>1, <2>2, <2>3 DEF Execute, Idle, Calls, Nothing
        <3>2. InPort' = InPort
            BY <1>2, <1>7, <2>2, <3>1 DEF InPort, HasPort, Quiet
        <3> QED
            BY <1>2, <1>3, <3>2
    <2>4. CASE Complete \/ Refuse
        <3>1. running = [of |-> call[c], args |-> call[c]]
            BY <2>1, <2>4 DEF Complete, Refuse, Asked, Working
        <3>2. running' = Idle /\ cmd1' \in {Nothing, Refused}
            BY <2>2, <2>4, <3>1 DEF Complete, Refuse
        <3>3. HasPort(c, "executed")' \/ HasPort(c, "refused")'
            BY <1>1, <1>2, <1>7, <2>1, <3>2
               DEF HasPort, InPort, Waiting, Quiet, Nothing, Refused, Calls
        <3>4. \E s \in {"executed", "refused"} : InPort' = [InPort EXCEPT !.step = s]
            BY <1>2, <2>2, <3>3 DEF HasPort
        <3> QED
            BY <1>2, <1>3, <2>2, <3>4 DEF Port!Finish, HasPort
    <2> QED
        BY <2>3, <2>4 DEF Controller
<1> QED
    BY <1>1, <1>2, <1>3, <1>5, <1>6, <1>7 DEF CallerTypes

LEMMA PortStep ==
    ASSUME IInv, IInv', [Next]_vars
    PROVE  [Port!Next]_<<Current, calls, InPort, Got>>
<1>1. ASSUME NEW c \in Callers, Enter(c) PROVE Port!Next
    BY <1>1, EnterServes DEF Port!Next
<1>2. ASSUME NEW c \in Callers, Begin(c)
      PROVE  Port!Next \/ UNCHANGED <<Current, calls, InPort, Got>>
    BY <1>2, BeginServes DEF Port!Next
<1>3. ASSUME NEW c \in Callers, Driver(c)
      PROVE  Port!Next \/ UNCHANGED <<Current, calls, InPort, Got>>
    BY <1>3, InsideServes, LeaveServes DEF Port!Next
<1>4. ASSUME Controller PROVE Port!Next \/ UNCHANGED <<Current, calls, InPort, Got>>
    BY <1>4, ControllerServes DEF Port!Next
<1>5. CASE UNCHANGED vars
    <2>1. Got' = Got
        BY <1>5, SameResults DEF vars
    <2> QED
        BY <1>5, <2>1 DEF vars, device, Current, InPort, Quiet
<1> QED
    BY <1>1, <1>2, <1>3, <1>4, <1>5 DEF Next

\* write_4CC() implements the command port, for any number of callers and calls, whatever
\* transfers fail, with refusals and lost edges and however late the controller is.
THEOREM PortIsServed == Spec => ServesPort
<1>1. Init => Port!Init
    <2>1. ASSUME Init PROVE Got = [c \in Callers |-> 0] /\ Current = [c \in Callers |-> 0]
        BY <2>1 DEF Init, Got, Current, Garbage, Answer, Unread, Nothing
    <2>2. ASSUME Init PROVE InPort = Port!Free
        BY <2>2 DEF Init, InPort, Quiet, Calls, Nothing, Port!Free, Port!Nothing
    <2> QED
        BY <2>1, <2>2 DEF Init, Port!Init, Port!Nothing
<1>2. IInv /\ [Next]_vars => IInv'
    BY AnswerStep
<1>3. IInv /\ IInv' /\ [Next]_vars => [Port!Next]_(Port!vars)
    BY PortStep DEF Port!vars
<1> QED
    BY InitInv, <1>1, <1>2, <1>3, PTL DEF Spec, ServesPort, Port!Spec
=============================================================================
