SPECIFICATION Spec
CONSTANTS
    Clients = {c1, c2}
    BYTE = 3
    StoredGops <- MCStoredGops
    Escaped = {2}
    BACK_LOG = 1
    MAX_ITEMS = 3
    MAX_SESSIONS = 3
    MAX_MISREADS = 1
INVARIANTS
    TypeOK
    EachClientSeesARun
    FramesArrive
    MessagesArrive
CHECK_DEADLOCK FALSE
