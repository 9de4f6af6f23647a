\* Every page of up to three blocks; configurations and smaller pages in turn.
SPECIFICATION Spec
CONSTANTS
    Images <- MCImages
    Configs <- AllConfigs
    INT_MAX = 1048575
    GARBAGE <- MCGarbage
    MAX_WORK = 5
    Xs = {0, 4}
    Ys = {0, 2, 9}
    Ws = {3, 6}
    Hs = {2, 4}
    MaxBlocks = 3
    Rows = 13
    Cols = 15
    Texts = {6}
INVARIANTS
    TypeOK
    Separated
    DropsHaveCause
    LinesAreWhole
    GarbageUnused
CHECK_DEADLOCK FALSE
