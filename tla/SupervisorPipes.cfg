SPECIFICATION FairSpec
CONSTANTS
    Calls = {c1, c2}
    Timed = {c1, c2}
    Big = {c2}
    MaxChildren = 1
    Noisy = {}
    MaxEvents = 1
    Room = 1
    None = None
PROPERTIES
    TimedCallsEnd
CHECK_DEADLOCK FALSE
