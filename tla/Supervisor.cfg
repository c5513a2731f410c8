SPECIFICATION FairSpec
CONSTANTS
    Calls = {c1, c2}
    Timed = {c1}
    Big = {c2}
    MaxChildren = 2
    Noisy = {1, 2}
    MaxEvents = 1
    Room = 1
    None = None
INVARIANTS
    OneChild
    WaitersAreRegistered
PROPERTIES
    CallsEnd
CHECK_DEADLOCK FALSE
