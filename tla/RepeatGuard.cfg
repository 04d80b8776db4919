SPECIFICATION GuardSpec
CONSTANTS
    Calls <- const_Calls
    Sigs <- const_Sigs
    Sig <- const_Sig
    Turns <- const_Turns
    Threshold = 3
    MaxTail = 10
INVARIANT RowBounded
