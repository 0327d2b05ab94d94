CONSTANTS
    t1 = t1
    t2 = t2
    Threads = {t1, t2}
    NoCall = NoCall
    MaxCalls = 2
    Amounts <- MCAmounts
    Initial <- MCInitial
    PowerOn <- Zeros
SPECIFICATION ChargerSpec
CHECK_DEADLOCK FALSE
INVARIANTS
    SettingsStick
SYMMETRY MCSymmetry
