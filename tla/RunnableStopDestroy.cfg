SPECIFICATION Spec
CONSTANTS
    o = o
    Callers = {o}
    Owner = o
    a1 = a1
    Addrs = {a1}
    Null = Null
    Body = "polls_state"
    Calls = {"start", "stop", "destroy"}
    AllocFails = {}
    Contract = {}
PROPERTY DestroyCompletes
CHECK_DEADLOCK FALSE
