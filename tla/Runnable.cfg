SPECIFICATION Spec
CONSTANTS
    o = o
    c1 = c1
    Callers = {o, c1}
    Owner = o
    a1 = a1
    a2 = a2
    Addrs = {a1, a2}
    Null = Null
    Body = "polls_state"
    Calls = {"start", "stop", "join", "cancel", "destroy"}
    AllocFails = {"stack", "tcb", "create"}
    Contract = {"reap_first", "entered", "polls"}
INVARIANT TypeOK
 
INVARIANT ReapedMeansReady
INVARIANT HandleExclusive
PROPERTY HeapBalanced
 
 
CHECK_DEADLOCK FALSE
