SPECIFICATION FairSpec
CONSTANTS
    GopSizes = {2, 3, 4}
    BodySizes = {0, 2}
    BYTE = 3
    MAX_FRAMES = 4
INVARIANTS
    TypeOK
    SavedAsSent
    RefusesOnlyLongGops
PROPERTIES
    SentIsSaved
CHECK_DEADLOCK FALSE
