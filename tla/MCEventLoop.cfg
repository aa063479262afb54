CONSTANTS
    k1 = k1
    k2 = k2
    a = a
    Nil = Nil
    ReadOnly = ReadOnly
    EmptyName = ""
    Keys <- MCKeys
    StrVals <- MCStrVals
    Names <- NoNames
    Scores <- NoScores
    TtlArgs <- MCTtlArgs
    MaxWorks <- MCMaxWorks
    MaxTime <- MCMaxTime
    Fds <- MCFds
    IdleTimeout <- MCIdleTimeout
    Int32Max <- MCInt32Max
SPECIFICATION Spec
INVARIANTS
    TypeOK
    HeapTracksEntries
    HandlerAssertsHold
    IdleListTracksConns
PROPERTIES
    ExpiredEventuallyRemoved
    IdleConnEventuallyClosed
