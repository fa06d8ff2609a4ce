SPECIFICATION NodeSpec
CONSTANTS
    Sessions = {s1}
    Flushers = {}
    Main = Main
    Closers = {Main}
    QueueCap = 1
    MaxBatch = 2
    MaxOps = 5
    MaxFaults = 0
    MaxDeaths = 1
    MaxSamples = 0
CHECK_DEADLOCK FALSE
INVARIANTS NoPanic
