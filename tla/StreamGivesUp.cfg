SPECIFICATION FairSpec
CONSTANTS
    Streams = {s1, s2}
    s1 = s1
    s2 = s2
    Exception = Exception
    None = None
    Capacity = 3
    MaxRetries = 2
    Unreachable = TRUE
    MaxMessages = 2
    MaxFaults <- NoFaults
    MaxKinds = 0
PROPERTIES
    GivesUp
CHECK_DEADLOCK FALSE
