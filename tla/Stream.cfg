SPECIFICATION Spec
CONSTANTS
    Streams = {s1, s2, s3}
    s1 = s1
    s2 = s2
    s3 = s3
    Exception = Exception
    None = None
    Capacity = 2
    MaxRetries = 2
    Unreachable = FALSE
    MaxMessages = 3
    MaxFaults <- OneOfEach
    MaxKinds = 2
SYMMETRY StreamSymmetry
INVARIANTS
    TypeOK
    NothingDropped
    StreamInv
    AbandonedIsStopped
    LeavingInv
PROPERTIES
    Delivers
CHECK_DEADLOCK FALSE
