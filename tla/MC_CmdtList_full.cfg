CONSTANTS
    ListCnt = 2
    NSlots = 4
    RefModulus = 8
    MaxGen = 4
SPECIFICATION Spec
INVARIANT ScanTerminates
