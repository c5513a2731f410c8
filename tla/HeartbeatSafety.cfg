SPECIFICATION Spec
CONSTANTS
    Heartbeats = {h1}
    Clicks = 2
    Capacity = 2
    MaxGates = 2
    MaxCrashes = 1
INVARIANTS
    RunsNeverOverlap
    DeletedIsQuiet
    PausedIsQuiet
    LoopsAreOwned
    ExecutionsFitRuns
    EnabledIsScheduled
