SPECIFICATION Spec
CONSTANTS
    u = u
    v = v
    Users = {u, v}
    Worker = Worker
    Nobody = Nobody
    Blocks = 3
    Size = 3
    ChunkMax = 2
    HeldCancel = FALSE
INVARIANT TypeOK
INVARIANT PatchClean
INVARIANT TransferInOrder
PROPERTY ChargerSetOnce
PROPERTY TransfersReturn
PROPERTY Boots
CHECK_DEADLOCK FALSE
