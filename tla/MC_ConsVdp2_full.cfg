CONSTANTS
    VblankIn = VblankIn
    FontXfer = FontXfer
    PageXfer = PageXfer
    OtherXfer = OtherXfer
    Tags <- MC_Tags
    Clients <- MC_Clients
    QueueDepth = 1
    MaxReq = 6
    MaxWrites = 3
    IsrWrites = 1
SPECIFICATION Spec
PROPERTY BufferReturns
