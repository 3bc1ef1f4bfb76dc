SPECIFICATION Spec
CONSTANTS
    r1 = r1
    r2 = r2
    r3 = r3
    r4 = r4
    Requests <- MCRequests
    Window = 3
    Limit = 1
    Burst = 1
    MaxTime = 5
SYMMETRY Symmetry
INVARIANTS
    WindowBound
PROPERTIES
    ResetIsExact
    RefusedOnlyWhenFull
CHECK_DEADLOCK FALSE
