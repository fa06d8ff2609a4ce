SPECIFICATION FairSpec
CONSTANTS
    Sessions = {s1}
    Flushers = {f1}
    Closers = {c1}
    QueueCap = 2
    MaxBatch = 2
    MaxOps = 3
    MaxFaults = 1
    MaxDeaths = 1
INVARIANTS TypeOK OpsConserved WriterHasDB CloseDrains FlushNowApplied
PROPERTIES BatchAtomic LogRefined
PROPERTIES EventuallySettled WaitsEnd
CHECK_DEADLOCK FALSE
