SPECIFICATION Spec
CONSTANTS
    Writer = w
    Viewer = v
    Absent = Absent
    Short = Short
    Filler = Filler
    CHUNKS = 3
    MAX_ITEMS = 3
    MAX_CRASHES = 2
INVARIANTS
    TypeOK
    SavedItemsStay
    StartsWell
CHECK_DEADLOCK FALSE
