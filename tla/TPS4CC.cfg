SPECIFICATION Spec
CONSTANTS
    c1 = c1
    c2 = c2
    Callers = {c1, c2}
    NoCaller = NoCaller
    MaxCalls = 4
    Bare = {2, 3}
INVARIANT TypeOK
INVARIANT AnswerMatches
PROPERTY ServesPort
PROPERTY CallsReturn
CHECK_DEADLOCK FALSE
