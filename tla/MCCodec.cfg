CONSTANTS
    Junk = Junk
    Opq = Opq
    Opaque <- Opq
    InitCap <- MCInitCap
    GrowStep <- MCGrowStep
    MaxMsg <- LargeMaxMsg
    TooBigMsg <- MCTooBigMsg
    Requests <- PlainRequests
    ReplyOf <- MCReplyOf
    InCap <- MCInCap
    Nil = Nil
    MaxRequests <- MCMaxRequests
    ReadSizes <- MCReadSizes
SPECIFICATION Spec
INVARIANTS
    TypeOK
    OutgoingIsFrames
    NoOverrun
    RequestsServedInOrder
CHECK_DEADLOCK FALSE
