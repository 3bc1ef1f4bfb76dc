SPECIFICATION Spec
CONSTANTS
    s1 = s1
    s2 = s2
    r1 = r1
    r2 = r2
    p1 = p1
    p2 = p2
    hello = hello
    edited = edited
    Stories <- MCOneStory
    Texts <- MCTexts
    Visibilities <- MCOneVisibility
    Requests <- MCTwoRequests
    Passes <- MCTwoPasses
    BatchSize = 1
    MaxOffset = 0
    Lifetimes <- MCHour
    MaxTime = 1
    MaxFaults = 1
SYMMETRY Symmetry
INVARIANTS
    RemovedOnce
    SweepsOnlyExpired
    StaleHasACause
PROPERTIES
    FrozenOnceDeleted
    LostEditHasACause
    ServiceSpec
CHECK_DEADLOCK FALSE
