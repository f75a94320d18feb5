SPECIFICATION Spec
CONSTANTS
    QueueSize = 3
    BatchSize = 2
    MaxSpans = 6
    MaxStreams = 3
    MaxRuns = 3
CHECK_DEADLOCK FALSE
INVARIANTS
    InOrder
    FlagsFollow
    FollowsTheAgent
    LedgerBalances
    LimitsAreKept
PROPERTY
    QueueIsSent
