\* Every arrangement of three proposals, and images of two widths in turn.
SPECIFICATION Spec
CONSTANTS
    TABLE_SIZE = 5
    MAX_HORIZONTAL_GAP = 2
    PERCENT = 70
    Calls <- MCCalls
    MAX_WORK = 5
    Widths = {2, 4}
    Tops = {0, 3, 6}
    Scores = {1, 2}
    MaxBoxes = 3
INVARIANTS
    TypeOK
    GraphIsNearest
    PrecursorsExist
    EdgesGoRight
    
    ChainsCover
CHECK_DEADLOCK FALSE
