CONSTANTS
    ListCnt = 3
    NSlots = 5
    RefModulus = 16
    MaxGen = 9
    Len <- MC_Len
SPECIFICATION AnyOrderSpec
INVARIANT DisplayCurrent
