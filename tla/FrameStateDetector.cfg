\* A few pages, one after the other.
SPECIFICATION Spec
CONSTANT
    MAX_PAGES = 3
INVARIANTS
    FailureIsOfThisPage
CHECK_DEADLOCK FALSE
