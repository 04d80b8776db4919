SPECIFICATION FairSpec
CONSTANTS
    NAuthors = 2
    Books <- const_Books
    Author <- const_Author
    Tags = {"s", "t"}
    Slug <- const_Slug
    MaxUser = 1
    MaxFail = 1
INVARIANTS SearchedOnce TagsKept NoneOverlooked
PROPERTY NewVolumeMonitored
