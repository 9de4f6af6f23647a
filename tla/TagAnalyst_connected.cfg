\* The comment about connected regions.
SPECIFICATION Spec
CONSTANTS
    Pages <- MCPages
    SHORT_TAG = 1
    TAG_MARGIN = 2
    MAX_CALLS = 1
    Width = 13
    Spans <- MCSpans
    Tops = {0, 1, 5}
    MaxLines = 3
INVARIANTS
    TagsConnected
CHECK_DEADLOCK FALSE
