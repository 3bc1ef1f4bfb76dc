SPECIFICATION FairSpec
CONSTANTS
    g1 = g1
    g2 = g2
    g3 = g3
    h1 = h1
    h2 = h2
    Goroutines <- MCGoroutines
    Handlers <- MCHandlers
    QueueEnabled = TRUE
INVARIANTS
    FlagTruthful
PROPERTIES
    LoopsEndBeforeClose
    ShutdownCompletes
CHECK_DEADLOCK FALSE
