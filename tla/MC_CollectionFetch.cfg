CONSTANTS
    N = 2
    LimiterCap = 1
    Kinds = {"link", "expanded"}
    Others <- MCOthers
    MaxConcurrentRequests = 1
    NoCert = NoCert
SPECIFICATION FetchSpec
CHECK_DEADLOCK FALSE
INVARIANTS BothBounds NothingLeftBehind
PROPERTIES ImplementsPool AnsweredCallReturns
