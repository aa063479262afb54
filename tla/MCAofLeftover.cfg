CONSTANTS
    k1 = k1
    k2 = k2
    a = a
    b = b
    Nil = Nil
    Junk = Junk
    EmptyName = ""
    Keys <- MCKeys
    StrVals <- OneVal
    Names <- NoNames
    Scores <- OneScore
    TtlArgs <- FarTtl
    MaxWorks <- MCMaxWorks
    MaxTime <- MCMaxTime
    MaxRewrites <- OneRewrite
    InitCap <- BigCap
    GrowStep <- MCGrowStep
    Code <- MCCode
    NameBytes <- MCNameBytes
    MaxBytes <- MCMaxBytes
    SyncMs <- MCSyncMs
    Faults <- WriteError
SPECIFICATION Spec
INVARIANTS
    LogReproducesStore
