SPECIFICATION FairSpec
CONSTANTS
    Heartbeats = {h1}
    Clicks = 1
    Capacity = 1
    MaxGates = 1
    MaxCrashes = 1
PROPERTIES
    HandlersReturn
    ManualRunsEnd
    ScheduledRunsRecur
