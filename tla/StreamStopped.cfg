SPECIFICATION FairSpec
CONSTANTS
    Streams = {s1, s2}
    s1 = s1
    s2 = s2
    Exception = Exception
    None = None
    Capacity = 3
    MaxRetries = 2
    Unreachable = FALSE
    MaxMessages = 2
    MaxFaults <- OneStop
    MaxKinds = 1
PROPERTIES
    StopStops
CHECK_DEADLOCK FALSE
