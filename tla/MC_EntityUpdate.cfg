CONSTANTS
    Fields = {"ServiceEnabled", "Overflow"}
    allowedUpdates = {"ServiceEnabled"}
    Values = {1, 2}
    WriteBound = 2
SPECIFICATION Spec
CHECK_DEADLOCK FALSE
INVARIANTS FirstUpdateCommits ClearLogClears
PROPERTY NoLostUpdate
