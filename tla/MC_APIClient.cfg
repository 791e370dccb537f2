CONSTANTS
    Requests = {r1, r2}
    MaxConcurrentRequests = 0
    Certs = {k1, k2}
    NoCert = NoCert
SPECIFICATION Spec
CHECK_DEADLOCK FALSE
INVARIANTS PermitsConserved BodyDiscipline PinnedPeer
PROPERTIES ImplementsSlots CancelledCallEnds
