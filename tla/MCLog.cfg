CONSTANTS
    t1 = t1
    t2 = t2
    Threads = {t1, t2}
    Calls <- MCCalls
    MaxCalls = 2
    BUFLEN = 5
SPECIFICATION Spec
CHECK_DEADLOCK FALSE
INVARIANTS LinesWhole StreamConserved
