CONSTANTS
    w1 = w1
    w2 = w2
    r1 = r1
    r2 = r2
    Main = Main
    Nobody = Nobody
    Workers <- MCWorkers
    Requests <- MCRequests
    Inputs <- MCInputsSafety
    PoolSize = 2
    RecycleAt = 1
    CapMax = 3
    MaxStarts = 2
    Faults <- MCAllFaults
SYMMETRY MCSymmetry
SPECIFICATION Spec
CHECK_DEADLOCK FALSE
INVARIANTS TypeOK AcceptExclusive ConnectionOwned AtMostOneReply Attributed PoolConserved StatusNeverOverreports OrderlyEnd
PROPERTIES ImplementsImpressionLog NeverImplicitlyCreated
