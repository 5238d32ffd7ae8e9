CONSTANTS
    w1 = w1
    w2 = w2
    r1 = r1
    r2 = r2
    Main = Main
    Nobody = Nobody
    Workers <- MCWorkers
    Requests <- MCRequests
    Inputs <- MCInputsLive
    PoolSize = 1
    RecycleAt = 0
    CapMax = 4
    MaxStarts = 1
    Faults <- MCAcceptFaults
SPECIFICATION FairSpec
CHECK_DEADLOCK FALSE
PROPERTIES ClientIsServed BatchIsLogged
