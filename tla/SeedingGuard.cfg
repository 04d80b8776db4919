SPECIFICATION FairSpec
CONSTANTS
    m = m
    s = s
    f = f
    e1 = e1
    e2 = e2
    Movies = {m}
    Shows = {s}
    Files = {f, e1, e2}
    FilesOf <- const_FilesOf
    MaxLinks = 2
    MaxUser = 1
    MaxMount = 1
    MaxFail = 2
INVARIANTS SeedingLabelled UnlinkedFreed
PROPERTIES NotTakenWhileLinked UsersLabelsKept LabelsFollow
