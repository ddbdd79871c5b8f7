SPECIFICATION FairSpec
CONSTANTS
    s1 = s1
    Streams = {s1}
    MaxBytes <- OneStream
    InitialCredit = 2
    InitialConnCredit = 1
INVARIANTS
    TypeOK
    OnlySlicesLose
    OnlyOvertakingReorders
    OnlyDataHidesTheEnd
PROPERTIES
    IsByteStream
    BufferIsFlushed
    EndReachesReader
