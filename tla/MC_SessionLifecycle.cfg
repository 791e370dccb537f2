CONSTANTS
    Clients = {c1, c2, c3}
    NoAuth = NoAuth
    SessionBound = 2
    Given = TRUE
SPECIFICATION Spec
CHECK_DEADLOCK FALSE
INVARIANTS SessionHasOwner NoDeadToken
PROPERTY SessionsCleanedUp
