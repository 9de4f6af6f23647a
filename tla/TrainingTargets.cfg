\* Polygons that end before the right edge of the image, level and slanted.
SPECIFICATION Spec
CONSTANTS
    Images <- MCImages
    RPN_BATCHSIZE = 3
    RPN_CLOBBER_POSITIVES = FALSE
    Lefts = {0, 9}
    Rights = {15, 31}
    Tops = {0, 3, 20}
    Bottoms = {14, 47}
    Margin = 1
INVARIANTS
    PositivesTouch
    BatchFilled
CHECK_DEADLOCK FALSE
