\* Squarish images, ones at the limit of the scale and slivers, and the limits of
\* the proposal layer set so low that they are reached.
SPECIFICATION Spec
CONSTANTS
    Heights = {600, 1250}
    Widths = {1, 12, 31, 601, 1250}
    TABLE_SIZE = 1216
    Outputs <- MCOutputs
    RPN_PRE_NMS_TOP_N = 3
    RPN_POST_NMS_TOP_N = 3
    Columns = {0, 1}
    Scores = {50, 70, 90}
    Extents <- MCExtents
    MaxPredictions = 4
INVARIANTS
    NmsExact
    ColumnsSurvive
    HandOver
CHECK_DEADLOCK FALSE
