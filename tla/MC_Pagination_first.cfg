CONSTANTS
    Pages = 2
    RequestBound = 4
SPECIFICATION Spec
CHECK_DEADLOCK FALSE
INVARIANT FallbackIsForTheFirstQuery
