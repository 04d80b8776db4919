SPECIFICATION FairSpec
CONSTANTS
    Media <- const_Media
    Section <- const_Section
    Parts <- const_Parts
    Ours <- const_Ours
    MaxMissingPercent = 40
    MaxChanges = 2
    MaxFail = 1
INVARIANTS LossBounded OutageHarmless CalmSafe
PROPERTY Converges
