SPECIFICATION Spec
CONSTANT
    MaxResponses = 1
INVARIANT
    MonotonicityHolds
