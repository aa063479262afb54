CONSTANTS
    Junk = Junk
    Opq = Opq
    Opaque <- Opq
    InitCap <- MCInitCap
    GrowStep <- MCGrowStep
    MaxMsg <- LargeMaxMsg
    TooBigMsg <- MCTooBigMsg
    Requests <- ArrRequests
    ReplyOf <- MCReplyOf
    InCap <- MCInCap
    Nil = Nil
    MaxRequests <- LongRun
    ReadSizes <- MCReadSizes
SPECIFICATION Spec
INVARIANTS
    NoOverrun
CHECK_DEADLOCK FALSE
