SPECIFICATION Spec
CONSTANTS
    a = a
    b = b
    i1 = i1
    i2 = i2
    r1 = r1
    r2 = r2
    w = w
    Users <- MCUsers
    Pairs <- MCPairs
    FollowIds <- MCIds
    Requests <- MCRequests
    Workers <- MCWorkers
    MaxCount = 2
SYMMETRY Symmetry
INVARIANTS
    CountersExactUnlessDrifted
    CacheTruthful
PROPERTIES
    DuplicateHasACause
CHECK_DEADLOCK FALSE
