SPECIFICATION FallbackSpec
CONSTANTS
    n1 = n1
    n2 = n2
    early = early
    long = long
    late = late
    None = None
    Names = {n1, n2}
    Certs = {early, long, late}
    Subjects <- SubjectNames
    NotBefore <- Begin
    NotAfter <- End
    Givens <- Provided
    MaxTime = 2
    Verdicts <- Defaults
INVARIANTS
    TypeOK
    
    
PROPERTY
    DefaultComesFirst
