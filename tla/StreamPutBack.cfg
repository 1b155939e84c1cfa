SPECIFICATION FairSpec
CONSTANTS
    Streams = {s1, s2}
    s1 = s1
    s2 = s2
    Exception = Exception
    None = None
    Capacity = 1
    MaxRetries = 2
    Unreachable = FALSE
    MaxMessages = 3
    MaxFaults <- NoFaults
    MaxKinds = 0
PROPERTIES
    PutBackReturns
CHECK_DEADLOCK FALSE
