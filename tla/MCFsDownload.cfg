CONSTANTS
    MaxDownloads = 4
    Sizes = {0, 3, 5}
    ChunkSize = 2
    OneAtATime = TRUE
    MaxRevisions = 1
    MaxFaults = 2
    Hole = Hole
    None = None
SPECIFICATION FairSpec
INVARIANTS
    TypeOK
    InPlace
PROPERTIES
    Exact
    RetrySucceeds
    NothingLost
CHECK_DEADLOCK FALSE
