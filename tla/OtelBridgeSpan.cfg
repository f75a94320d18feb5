SPECIFICATION Spec
CONSTANTS
    MaxTransactions = 2
    MaxSpans = 2
    MaxSegments = 2
    MaxContexts = 3
    MaxDepth = 2
CHECK_DEADLOCK FALSE
INVARIANT
    ActiveSpanIsSegment
