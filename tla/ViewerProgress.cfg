SPECIFICATION FairSystemSpec
CONSTANTS
    MAX_DATA_OFFSET = 15
    ITEM_HEADER = 2
    UINT32 = 64
    ItemSizes = {3, 4}
    BufferedSizes = {3}
    GarbageSizes = {40, 62}
    MAX_CALLS = 5
    MAX_FAULTS = 1
    MAX_OPENS = 2
INVARIANTS
    ViewerTypeOK
    DeliversInOrder
PROPERTIES
    ImplementsItemLog
    ImplementsFairItemLog
CHECK_DEADLOCK FALSE
