SPECIFICATION ExtractSpec
CONSTANTS
    Texts <- const_Texts
    Chars = 6
    Segs = 4
CHECK_DEADLOCK FALSE
INVARIANTS FoundSound AllFound CallNotMissed
