\* Polygons that may reach the right edge of the image.
SPECIFICATION Spec
CONSTANTS
    Images <- MCImages
    RPN_BATCHSIZE = 3
    RPN_CLOBBER_POSITIVES = FALSE
    Lefts = {0, 9}
    Rights = {16, 32}
    Tops = {0, 20}
    Bottoms = {14, 47}
    Margin = 0
INVARIANTS
    PositivesTouch
CHECK_DEADLOCK FALSE
