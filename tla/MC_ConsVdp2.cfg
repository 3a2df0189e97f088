CONSTANTS
    VblankIn = VblankIn
    FontXfer = FontXfer
    PageXfer = PageXfer
    OtherXfer = OtherXfer
    Tags <- MC_Tags
    Clients <- MC_Clients
    QueueDepth = 6
    MaxReq = 6
    MaxWrites = 3
    IsrWrites = 1
SPECIFICATION Spec
INVARIANT OneFlushInFlight
INVARIANT ForegroundShown
PROPERTY BufferReturns
