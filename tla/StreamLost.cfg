SPECIFICATION Spec
CONSTANTS
    Streams = {s1, s2}
    s1 = s1
    s2 = s2
    Exception = Exception
    None = None
    Capacity = 3
    MaxRetries = 2
    Unreachable = FALSE
    MaxMessages = 2
    MaxFaults <- OneRestart
    MaxKinds = 1
INVARIANTS
    NothingLost
CHECK_DEADLOCK FALSE
