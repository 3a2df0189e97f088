CONSTANTS
    ListCnt = 3
    NSlots = 5
    RefModulus = 2
    MaxGen = 5
    Len <- MC_Len
SPECIFICATION SceneSpec
INVARIANT DisplayCurrent
