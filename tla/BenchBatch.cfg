SPECIFICATION FairSpec
CONSTANTS
    NM = 2
    MaxFail = 2
    MaxStop = 1
    MaxRuns = 2
CHECK_DEADLOCK FALSE
INVARIANTS OfItsOwn NeverBoth MeasuresIt
PROPERTY ProductionReturns
