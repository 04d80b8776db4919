SPECIFICATION FairSpec
CONSTANTS
    NW = 5
    NC = 2
    Orig <- const_Orig
    Operator = 1
    Owned = 2
    SelfHealed <- const_SelfHealed
    MaxPoll = 2
    MaxFail = 2
INVARIANTS HeldDown DownInOrder RestoredAfterUp
PROPERTIES ImplementsLog SavedKept LedgerReplayed
