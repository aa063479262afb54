CONSTANTS
    Junk = Junk
    Opq = Opq
    Opaque <- Opq
    InitCap <- MCInitCap
    GrowStep <- MCGrowStep
    MaxMsg <- SmallMaxMsg
    TooBigMsg <- MCTooBigMsg
    Requests <- KeysOnly
    ReplyOf <- MCReplyOf
    InCap <- MCInCap
    Nil = Nil
    MaxRequests <- MCMaxRequests
    ReadSizes <- MCReadSizes
SPECIFICATION Spec
INVARIANTS
    NoOverrun
CHECK_DEADLOCK FALSE
