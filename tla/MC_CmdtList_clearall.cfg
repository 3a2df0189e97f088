CONSTANTS
    ListCnt = 2
    NSlots = 4
    RefModulus = 8
    MaxGen = 3
SPECIFICATION Spec
PROPERTY ClearAllRestarts
