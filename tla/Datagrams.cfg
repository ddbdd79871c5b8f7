SPECIFICATION FairSpec
CONSTANTS
    Size <- Sizes
    SendBuffer = 3
    MaxSizes = {2, 3}
    Window = 2
INVARIANTS
    TypeOK
    EachIsSomewhereOnce
    OnlyOvertakingReorders
PROPERTIES
    WaitingEnds
    BufferDrains
