SPECIFICATION Spec
CONSTANTS
    MAX_DATA_OFFSET = 16
    ITEM_HEADER = 3
    UINT32 = 64
    ItemSizes = {4, 5}
    BufferedSizes = {4}
    GarbageSizes = {1, 40, 60, 61}
    MAX_CALLS = 8
    MAX_FAULTS = 0
INVARIANTS
    AppendSucceeds
CHECK_DEADLOCK FALSE
