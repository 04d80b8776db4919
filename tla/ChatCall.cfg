SPECIFICATION FairCallSpec
CONSTANTS
    Idle = 3
    Caps <- const_Caps
    MaxParts = 2
CHECK_DEADLOCK FALSE
INVARIANTS TimeoutEarned Overtime
PROPERTY CallEnds
