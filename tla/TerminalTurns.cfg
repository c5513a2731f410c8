SPECIFICATION FairSpec
CONSTANTS
    Leases = {l1, l2}
    Batches = {b1}
    Lives = 1
    Takeovers = 1
    Size = 1
    Presses = 0
    None = None
    Denied = Denied
INVARIANTS
    RevokedHoldsNoCapture
PROPERTIES
    RevokedCommandsEnd
CHECK_DEADLOCK FALSE
