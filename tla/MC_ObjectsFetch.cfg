CONSTANTS
    N = 3
    LimiterCap = 2
    Kinds = {"null", "expanded", "expandedError", "link", "blank"}
SPECIFICATION ObjectsSpec
CHECK_DEADLOCK FALSE
INVARIANTS FetchBound EveryMemberOnce OrderedOutcome EveryLinkReceived NeverStuck
PROPERTIES NoLateResult CancelEndsAll
