CONSTANTS
    Keys = {"a", "b"}
    Literals = {"literal_null"}
    MaxTokens = 9
SPECIFICATION Spec
CHECK_DEADLOCK FALSE
INVARIANTS ParsesTheGrammar ToldTrueDepth
