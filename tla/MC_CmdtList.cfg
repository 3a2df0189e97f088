CONSTANTS
    ListCnt = 2
    NSlots = 4
    RefModulus = 8
    MaxGen = 5
SPECIFICATION Spec
INVARIANT TypeOK
INVARIANT NoHoleInChain
