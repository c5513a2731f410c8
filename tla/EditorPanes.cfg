SPECIFICATION Spec
CONSTANTS
    Tabs = {t1, t2}
    Files = {f}
    MaxPanes = 2
    MaxBlanks = 2
    MaxWindows = 1
    MaxTasks = 1
    MaxQuits = 1
INVARIANTS
    PanesHaveBuffers
PROPERTIES
    MarksStayHeard
SYMMETRY TabSymmetry
CHECK_DEADLOCK FALSE
