SPECIFICATION SystemSpec
CONSTANTS
    MAX_DATA_OFFSET = 18
    ITEM_HEADER = 2
    UINT32 = 64
    ItemSizes = {3, 4}
    BufferedSizes = {3}
    GarbageSizes = {1, 40, 61, 62}
    MAX_CALLS = 6
    MAX_FAULTS = 0
    MAX_OPENS = 1
INVARIANTS
    SurvivesWrap
CHECK_DEADLOCK FALSE
