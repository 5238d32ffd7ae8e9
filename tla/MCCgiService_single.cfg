CONSTANTS
    w1 = w1
    w2 = w2
    r1 = r1
    r2 = r2
    Main = Main
    Nobody = Nobody
    Workers <- MCOneWorker
    Requests <- MCRequests
    Inputs <- MCInputsAll
    PoolSize = 1
    RecycleAt = 1
    CapMax = 5
    MaxStarts = 1
    Faults <- MCAllFaults
SPECIFICATION FairSpec
CHECK_DEADLOCK FALSE
INVARIANT StatusCoversLog
PROPERTY EveryOpenIsFinished
