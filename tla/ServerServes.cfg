SPECIFICATION FairSpec
CONSTANTS
    Clients = {c1, c2}
    BYTE = 3
    StoredGops <- MCFirstGops
    Escaped = {2}
    BACK_LOG = 1
    MAX_ITEMS = 2
    MAX_SESSIONS = 3
    MAX_MISREADS = 1
PROPERTIES
    LeaverNoticed
    NobodyIsForgotten
CHECK_DEADLOCK FALSE
