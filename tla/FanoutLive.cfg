SPECIFICATION FairSpec
CONSTANTS
    N = 2
    Concurrency = 1
    RetryCap = 1
    MaxAttempt = 2
    MaxCrashes = 0
PROPERTIES
    StartedRunCloses
    AttemptsEnd
CHECK_DEADLOCK FALSE
