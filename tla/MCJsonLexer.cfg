CONSTANTS
    Inputs <- MCInputs
    MaxInteger = 50
    MaxUnsigned = 101
SPECIFICATION Spec
CHECK_DEADLOCK FALSE
INVARIANTS LongestMatch StringExact NumberExact
PROPERTIES ScanEnds
