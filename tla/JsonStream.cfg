SPECIFICATION FairSpec
CONSTANTS
    BLOCK = 3
    Lengths = {2, 3, 4}
    MAX_MESSAGES = 3
    MAX_BARS = 1
    MAX_SAVE_FAILS = 1
INVARIANTS
    TypeOK
    EachInItsTurn
    NoBacklog
PROPERTIES
    EndsOnClose
    SavedOnceFollowed
CHECK_DEADLOCK FALSE
