SPECIFICATION FairSpec
CONSTANTS
    Size <- Sizes
    Answered = {1, 3, 5}
    BatchSize = 2
    Segments = 3
    MaxResets = 1
    Error = Error
INVARIANTS
    TypeOK
    PiecesAreWhole
    ChannelIsCaughtUp
PROPERTIES
    KeepsChannelPromise
    ArrivalsAreProcessed
    DroppedTaskEnds
CHECK_DEADLOCK FALSE
