SPECIFICATION SystemSpec
CONSTANTS
    MAX_DATA_OFFSET = 17
    ITEM_HEADER = 2
    UINT32 = 64
    ItemSizes = {3, 4}
    BufferedSizes = {}
    GarbageSizes = {1, 40, 61, 62}
    MAX_CALLS = 2
    MAX_FAULTS = 0
    MAX_OPENS = 1
INVARIANTS
    SurvivesEmptyStart
CHECK_DEADLOCK FALSE
