SPECIFICATION Spec
CONSTANTS
    N = 2
    Concurrency = 1
    RetryCap = 1
    MaxAttempt = 2
    MaxCrashes = 1
INVARIANTS
    RowTracksTask
    SuccessHasOutput
    CountersAreExact
    VerdictIsHonest
    RefusedNeverRuns
PROPERTIES
    OutcomesArePermanent
    ImplementsLedger
CHECK_DEADLOCK FALSE
