CONSTANTS
    VblankIn = VblankIn
    VblankOut = VblankOut
    OtherCb = OtherCb
    FontCb = FontCb
    NoDev = NoDev
    NullDev = NullDev
    SimpleDev = SimpleDev
    AsyncDev = AsyncDev
    Tags <- MC_Tags
    Clients <- MC_Clients
    Devs <- MC_Devs
    AsyncDevs <- MC_AsyncDevs
    QueueDepth = 2
    MaxReq = 4
SPECIFICATION WaitedSpec
INVARIANT LoadedWhenCompleted
PROPERTY WaitReturns
