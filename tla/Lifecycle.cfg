SPECIFICATION FairSpec
CONSTANT
    MaxResponses = 2
INVARIANTS
    TypeOK
    ToldInOrder
    EndsAreExplained
    DrainedHandlesAreFree
    ErrorsAreOneFrameStale
PROPERTIES
    KeepAliveIsHonoured
    ResponsesSpareConnections
    ClosedLeaves
    TransmitsLeave
