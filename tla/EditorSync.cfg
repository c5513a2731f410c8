SPECIFICATION FairSpec
CONSTANTS
    Windows = {main, popout}
    Main = main
    Savers = {main, popout}
    MaxEdits = 2
    MaxSaves = 1
    MaxFailures = 1
INVARIANTS
    SavedIsOnDisk
    ShownIsCommitted
    NoSelfConflict
PROPERTIES
    ImplementsSharedText
    PendingSettles
    WindowsConverge
CHECK_DEADLOCK FALSE
