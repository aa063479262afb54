CONSTANTS
    v1 = v1
    v2 = v2
    Junk = Junk
    Vals <- MCVals
    InitCap <- MCInitCap
    GrowStep <- MCGrowStep
    MaxLen <- MCMaxLen
    MaxSize <- MCMaxSize
SPECIFICATION Spec
INVARIANTS
    TypeOK
    NoOverrun
    ContinuousSpanSafe
PROPERTIES
    ImplementsByteQueue
