SPECIFICATION FairSpec
CONSTANTS
    Tabs = {t1}
    Extra = {x1}
    MaxSessions = 2
    None = None
INVARIANTS
    NoUntrackedChild
    KillHitsOwn
    LiveTabHasRow
PROPERTIES
    OnlyItsShellTakesATab
    DisposedShellEnds
CHECK_DEADLOCK FALSE
