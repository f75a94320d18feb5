SPECIFICATION Spec
CONSTANTS
    QueueSize = 2
    BatchSize = 1
    MaxSpans = 3
    MaxStreams = 3
    MaxRuns = 2
CHECK_DEADLOCK FALSE
INVARIANT
    CarriesCurrentRun
