SPECIFICATION Spec
CONSTANTS
    Problems <- const_Problems
    Cases <- const_Cases
    Repeats = 2
    BaseLevels <- const_BaseLevels
    HugeContext = 32
    MaxExtra = 1
    EvalTasks = 2
CHECK_DEADLOCK FALSE
INVARIANT ScoresAreNew
