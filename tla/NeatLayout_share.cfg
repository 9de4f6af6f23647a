\* A sum of bytes beyond INT_MAX, on a page with many text pixels.
SPECIFICATION Spec
CONSTANTS
    Images <- MCImages
    Configs = {}
    INT_MAX = 4095
    GARBAGE <- MCGarbage
    MAX_WORK = 3
    Xs = {0, 4}
    Ys = {0, 4}
    Ws = {3, 4}
    Hs = {3}
    MaxBlocks = 2
    Rows = 10
    Cols = 15
    Texts = {20}
INVARIANTS
    ShareIsAShare
CHECK_DEADLOCK FALSE
