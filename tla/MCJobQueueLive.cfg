SPECIFICATION FairSpec
CONSTANTS
    j1 = j1
    j2 = j2
    w1 = w1
    w2 = w2
    Jobs <- MCJobs
    Workers <- MCWorkers
    Unhandled <- MCUnhandled
    JobMaxRetries <- MCOwnLimit
    ConfigMaxRetries = 2
    Delays <- MCNow
    MaxTime = 2
    MaxFaults = 1
INVARIANTS
    StatsMatchFates
PROPERTIES
    JobAdvances
    StopDrains
CHECK_DEADLOCK FALSE
