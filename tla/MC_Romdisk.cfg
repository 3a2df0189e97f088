CONSTANTS
    Width = 8
    VolNameLen = 5
    NULL = NULL
    B1 = B1
    B2 = B2
    MaxMounts = 1
    Image <- MC_Image
    Paths <- MC_Paths
    Blocks <- MC_Blocks
    ByteCounts <- MC_Bytes
    SeekOffsets <- MC_Offsets
SPECIFICATION Spec
SYMMETRY MC_Symmetry
INVARIANT TypeOK PtrInFile OpenResolves
