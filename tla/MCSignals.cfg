CONSTANTS
    N = 2
    Sendable = {18, 19, 20, 34}
    Masks <- SmallMasks
    Settable = {11, 34}
    Actions <- SmallActions
    Installed <- NoneOrAll
    TimerSignal = 34
    RLIMIT_SIGPENDING = 2
    MaxEvents = 3
    NULL = NULL
SPECIFICATION Spec
CHECK_DEADLOCK FALSE
INVARIANTS NoMissedSignal GroupStopExact ContinueWins StopIsReported QueueExact DeathReachesAll
