CONSTANTS
    l1 = l1
    l2 = l2
    l3 = l3
    Nobody = Nobody
    Torn = Torn
    Launches <- MCLaunches
    Kinds <- MCAllKinds
    Faults <- MCAllFaults
SPECIFICATION MCFairSpec
CHECK_DEADLOCK FALSE
INVARIANTS SingleInstance ServingOwnsItsFiles ParentReportsTruly
PROPERTIES CleanStartServes
