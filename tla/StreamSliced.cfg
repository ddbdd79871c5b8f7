SPECIFICATION Spec
CONSTANTS
    s1 = s1
    Streams = {s1}
    MaxBytes <- OneStream
    InitialCredit = 2
    InitialConnCredit = 3
INVARIANT
    NothingLostNorRepeated
