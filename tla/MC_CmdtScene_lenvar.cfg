CONSTANTS
    ListCnt = 3
    NSlots = 5
    RefModulus = 8
    MaxGen = 7
    Len <- MC_LenVar
SPECIFICATION SceneSpec
INVARIANT DisplayCurrent
