CONSTANTS
    PageWords = 64
    ProgramWords = 256
    H1 = H1
    H2 = H2
    NULL = NULL
    Default = Default
    Handlers <- MC_Handlers
    Pages <- MC_Pages
    Offsets <- MC_Offsets
    Counts <- MC_WideCounts
SPECIFICATION Spec
INVARIANT TransferInPage
