SPECIFICATION Spec
CONSTANTS
    Leases = {l1}
    Batches = {b1, b2}
    Lives = 2
    Takeovers = 1
    Size = 2
    Presses = 2
    None = None
    Denied = Denied
INVARIANTS
    FixesAreApproved
    LeaseFitsChild
CHECK_DEADLOCK FALSE
