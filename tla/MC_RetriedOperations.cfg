CONSTANTS
    MaxRetries = 2
    Attributes = {"BootTypeOrder", "Other"}
    Ordered = {"BootTypeOrder"}
    Values = {0, 1}
    MaxForeign = 2
SPECIFICATION MCSpec
CHECK_DEADLOCK FALSE
INVARIANTS OutcomeIsAccounted SettingsTaken
PROPERTIES OthersKept DeadContextEnds
