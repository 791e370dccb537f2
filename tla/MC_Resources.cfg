CONSTANTS
    Catalogue <- AllTypes
    MaxEdits = 2
    Unread <- MCUnread
    Shadowed <- MCShadowed
    Shared <- MCShared
    Crossed <- MCCrossed
    Uncounted <- MCUncounted
    Unkept <- MCUnkept
    Drifting <- MCDrifting
    Parts <- MCParts
SPECIFICATION Spec
CHECK_DEADLOCK FALSE
INVARIANTS SilentMeansAbsent EveryLinkHasItsReader  RefusalIsTheCallers PatchIsTheEdits ActionsAreOffered
