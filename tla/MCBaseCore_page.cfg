CONSTANTS
    w1 = w1
    w2 = w2
    Workers <- MCWorkers
    Second = 2
    IntMod = 8
    ULongMod = 16
    MaxTime = 4
    MaxRequests = 3
    MaxPages = 2
SYMMETRY MCSymmetry
SPECIFICATION Spec
CHECK_DEADLOCK FALSE
INVARIANTS AverageHonest CurrentHonest
