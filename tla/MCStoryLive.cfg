SPECIFICATION FairSpec
CONSTANTS
    s1 = s1
    s2 = s2
    r1 = r1
    r2 = r2
    p1 = p1
    p2 = p2
    hello = hello
    edited = edited
    Stories <- MCTwoStories
    Texts <- MCOneText
    Visibilities <- MCOneVisibility
    Requests <- MCOneRequest
    Passes <- MCOnePass
    BatchSize = 1
    MaxOffset = 1
    Lifetimes <- MCHour
    MaxTime = 1
    MaxFaults = 1
INVARIANTS
    OnePageIsSwept
PROPERTIES
    ExpiredAreSwept
    DeletedIsForgotten
CHECK_DEADLOCK FALSE
