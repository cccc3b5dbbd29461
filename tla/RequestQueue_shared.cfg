SPECIFICATION Spec
CONSTANTS
    Senders = {1, 3}
    ThreadPriority = 2
    Capacity = 2
    Timers = TRUE
    MaxSends = 3
    MaxTicks = 2
    Callbacks = {overflowed, NULL}
    NULL = NULL
    UINT32_MAX = UINT32_MAX
INVARIANTS
    TypeOK
    AnswerIsTruthful
    MaximumWasReached
    MaximumIsPeak
    DropsReported
CHECK_DEADLOCK FALSE
