SPECIFICATION Spec
CONSTANTS
    t1 = t1
    t2 = t2
    Threads = {t1, t2}
    EventTask = EventTask
    Nobody = Nobody
    a = a
    b = b
    Handles = {a, b}
    NoHandle = NoHandle
    MaxQueue = 1
    Contract = {"init_once", "quiet_deinit"}
    SelfErase = FALSE
INVARIANT TypeOK
INVARIANT RunningIsSubscribed
INVARIANT QuietWhenDown
PROPERTY EventReachesAll
PROPERTY NobodyHangs
