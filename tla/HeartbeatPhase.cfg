SPECIFICATION Spec
CONSTANTS
    Intervals = {2, 3}
    MaxTime = 9
    None = None
INVARIANTS
    PhaseIsKept
PROPERTIES
    TicksNeverReplay
