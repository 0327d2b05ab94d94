----------------------------- MODULE CommandPort -----------------------------
(***************************************************************************)
(* What write_4CC() promises of the controller's one command port: calls   *)
(* of any threads pass through it one at a time.  A call gives its command *)
(* once, and a result comes only from a command that was executed for the  *)
(* call.  A call may time out and leave its command with the controller:   *)
(* then the port is lost until that is done, and to those who use it       *)
(* meanwhile nothing is promised but that they return.                     *)
(***************************************************************************)
EXTENDS Integers

CONSTANTS Callers, MaxCalls

VARIABLES
    current,   \* the call that each caller is in, or Nothing
    made,      \* calls made
    port,      \* the call that has the port, and how far its command is
    result     \* the call whose answer each caller got, Nothing, or one of these:

vars == <<current, made, port, result>>

Nothing  == 0
NoAnswer == -1    \* the call returned 0 and wrote no answer
Foreign  == -2    \* it got something else
Results  == 1 .. MaxCalls \cup {Nothing, NoAnswer, Foreign}

Free == [of |-> Nothing, step |-> "free"]
Lost == [of |-> Nothing, step |-> "lost"]

Init ==
    /\ current = [c \in Callers |-> Nothing]
    /\ made = 0
    /\ port = Free
    /\ result = [c \in Callers |-> Nothing]

Call(c) ==
    /\ current[c] = Nothing /\ made < MaxCalls
    /\ made' = made + 1
    /\ current' = [current EXCEPT ![c] = made + 1]
    /\ result' = [result EXCEPT ![c] = Nothing]
    /\ UNCHANGED port

\* The command is given to a controller that has nothing to do.
Give(c) ==
    /\ current[c] # Nothing
    /\ port = Free
    /\ port' = [of |-> current[c], step |-> "given"]
    /\ UNCHANGED <<current, made, result>>

\* The controller is done with it.
Finish ==
    /\ port.step = "given"
    /\ \E s \in {"executed", "refused"} : port' = [port EXCEPT !.step = s]
    /\ UNCHANGED <<current, made, result>>

Leave(c) == current[c] # Nothing /\ current' = [current EXCEPT ![c] = Nothing] /\ UNCHANGED made

\* A call that got no turn returns an error ...
GiveUp(c) == Leave(c) /\ port.of # current[c] /\ UNCHANGED <<port, result>>

\* ... one that did leaves the port to others, with the answer or an error ...
Return(c) ==
    /\ Leave(c)
    /\ port.of = current[c] /\ port.step # "given"
    /\ port' = Free
    /\ \/ /\ port.step = "executed"
          /\ \E r \in {current[c], NoAnswer} : result' = [result EXCEPT ![c] = r]
       \/ UNCHANGED result

\* ... and one that waits no longer loses the port, with an error.
Abandon(c) ==
    /\ Leave(c)
    /\ port \in {Free, [of |-> current[c], step |-> "given"]}
    /\ port' = Lost
    /\ UNCHANGED result

\* Nothing is known of a call that used a lost port.
Stray(c) ==
    /\ Leave(c)
    /\ port = Lost /\ port' \in {Free, Lost}
    /\ \E r \in Results : result' = [result EXCEPT ![c] = r]

\* The controller is done with what nobody waited for.
Recover == port = Lost /\ port' = Free /\ UNCHANGED <<current, made, result>>

Next ==
    \/ Finish \/ Recover
    \/ \E c \in Callers : Call(c) \/ Give(c) \/ GiveUp(c) \/ Return(c) \/ Abandon(c) \/ Stray(c)

Spec == Init /\ [][Next]_vars
=============================================================================
