CONSTANTS
    l1 = l1
    l2 = l2
    l3 = l3
    Nobody = Nobody
    Torn = Torn
    Launches <- MCTwo
    Kinds <- MCServe
    Faults <- MCAllFaults
SPECIFICATION Spec
CHECK_DEADLOCK FALSE
INVARIANT RefusedForAnother
