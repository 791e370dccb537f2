CONSTANTS
    Pages = 3
    RequestBound = 6
SPECIFICATION Spec
CHECK_DEADLOCK FALSE
INVARIANTS PartialIsReported FallbackCompletes NoWastedRequest
PROPERTY CancelEndsListing
