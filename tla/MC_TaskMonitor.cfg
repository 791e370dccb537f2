CONSTANTS
    MaxDelay = 2
    TenSeconds = 2
    PollBound = 3
SPECIFICATION Spec
CHECK_DEADLOCK FALSE
INVARIANTS NoEarlyPoll EveryPollReported
PROPERTIES FinalAnswerKept CancelEndsWait
