SPECIFICATION NodeFairSpec
CONSTANTS
    Sessions = {s1}
    Flushers = {}
    Main = Main
    Closers = {Main}
    QueueCap = 1
    MaxBatch = 2
    MaxOps = 6
    MaxFaults = 1
    MaxDeaths = 1
    MaxSamples = 2
CHECK_DEADLOCK FALSE
INVARIANTS SessionOrder OpenRowExplained MissingRowExplained
PROPERTIES PanicCost SessionsGetEnded
