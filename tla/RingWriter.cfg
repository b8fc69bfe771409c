SPECIFICATION FairSpec
CONSTANTS
    MAX_DATA_OFFSET = 15
    ITEM_HEADER = 2
    UINT32 = 64
    ItemSizes = {3, 4}
    BufferedSizes = {3}
    GarbageSizes = {1, 40, 61, 62}
    MAX_CALLS = 7
    MAX_FAULTS = 2
INVARIANTS
    TypeOK
    IntactItems
    NewestAtLast
    LogIsChained
    BoundedFile
    FirstIsOldestOrFill
    RecentItemsSurvive
PROPERTIES
    SearchAdvances
    
CHECK_DEADLOCK FALSE
