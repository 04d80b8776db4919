SPECIFICATION Spec
CONSTANTS
    Calls <- const_Calls
    Sigs <- const_Sigs
    Sig <- const_Sig
    Answers <- const_Answers
    Threshold = 2
    MaxLen = 9
CHECK_DEADLOCK FALSE
INVARIANTS OnlyRepeatsBlocked PathsAgree ShimRepairs
PROPERTIES ImplementsGuard
