SPECIFICATION Spec
CONSTANTS
    MaxSize = 10
    ChunkSize = 3
    ElemSize = 3
    MaxHandle = 5
    Values = {"a", "b"}
    NoRec = NoRec
    NewestReads = TRUE
INVARIANT TypeOK
INVARIANT AckedNotLost
INVARIANT NewestNotOverwritten
PROPERTY ImplementsCell
