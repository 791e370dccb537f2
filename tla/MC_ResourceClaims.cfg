CONSTANTS
    Catalogue <- ClaimedTypes
    MaxEdits = 1
    Unread <- MCUnread
    Shadowed <- MCShadowed
    Shared <- MCShared
    Crossed <- MCCrossed
    Uncounted <- MCUncounted
    Unkept <- MCUnkept
    Drifting <- MCDrifting
    Parts <- MCParts
SPECIFICATION SpecClaims
CHECK_DEADLOCK FALSE
INVARIANT ResourceClaimHolds
