SPECIFICATION FairSpec
CONSTANTS
    Streams = {s1, s2}
    s1 = s1
    s2 = s2
    Exception = Exception
    None = None
    Capacity = 1
    MaxRetries = 2
    Unreachable = FALSE
    MaxMessages = 3
    MaxFaults <- AllButStop
    MaxKinds = 2
PROPERTIES
    EventuallyHandled
    ShutdownObeyed
CHECK_DEADLOCK FALSE
