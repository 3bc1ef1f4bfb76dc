SPECIFICATION Spec
CONSTANTS
    j1 = j1
    j2 = j2
    w1 = w1
    w2 = w2
    Jobs <- MCJobs
    Workers <- MCWorkers
    Unhandled <- MCNone
    JobMaxRetries <- MCOwnLimit
    ConfigMaxRetries = 2
    Delays <- MCDelays
    MaxTime = 2
    MaxFaults = 1
SYMMETRY WorkerSymmetry
INVARIANTS
    SingleCopy
    LiveJobsAreKept
    AttemptsBounded
    RetrySpacing
PROPERTIES
    ServiceSpec
CHECK_DEADLOCK FALSE
