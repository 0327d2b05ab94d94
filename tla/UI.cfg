SPECIFICATION Spec
CONSTANTS
    a = a
    b = b
    Apps = {a, b}
    Worker = Worker
    Nobody = Nobody
    Width = 16
    Height = 16
    Noise = Noise
    MaxSetUps = 2
INVARIANT OnlyNamedLosses
INVARIANT FlushesToReadyPanel
 
PROPERTY ChangesAppear
CHECK_DEADLOCK FALSE
