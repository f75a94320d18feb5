SPECIFICATION MCSpec
CONSTANTS
    e1 = e1
    e2 = e2
    e3 = e3
    e4 = e4
    e5 = e5
    Event = {e1, e2, e3, e4, e5}
    Priority <- MCPriority
    Limits = {0, 1, 2, 3}
    t1 = t1
    t2 = t2
    t3 = t3
    s1 = s1
    s2 = s2
    None = None
    Transaction = {t1, t2, t3, s1, s2}
    NameOf <- MCNameOf
    Duration <- MCDuration
    Synthetic = {s1, s2}
    Capacity = 1
    MaxSynthetics = 1
    MaxPayloads = 2
    Guarantee = 2
    Patience = 3
    Query = {q1, q2, q3, q4}
    MaxDuration = 2
    MaxSamples = 2
    Slot = {1}
    Target = {1, 2, 3}
    MaxSeen = 9
    MaxChanges = 2
    router = router
    auth = auth
    list = list
    handler = handler
    rest = rest
    x = x
    y = y
    Layer = {router, auth, list, handler, rest}
    Mounted <- MCMounted
    Parent <- MCParent
    Route <- MCRoute
    PathOf <- MCPathOf
    Errorware = {handler}
    Late = {auth}
    word = word
    blank = blank
    Error = {x, y, word, blank}
    StringError = {word}
    Malformed = {blank}
    IgnoredError = {y}
    IgnoredName = {"uri", "custom"}
    MaxCalls = 2
    MaxTransactions = 2
    MaxSegments = 4
    MaxBound = 1
    MaxListeners = 1
    MaxDepth = 2
    MaxInvocations = 2
    MaxActs = 3
    TreeSize = 4
    TreeEnd = 3
    Metric = {metric}
    Value = {1, 2}
    Measuring = {transaction}
    MaxRecords = 3
    MaxTime = 2
    MaxFlying = 2
    Hook = {h1, h2}
    Copy = {c1, c2, c3}
    Picky = {h2}
    MaxTries = 2
    r1 = r1
    r2 = r2
    Requests = {r1, r2}
    Uri <- MCUri
    Configured <- MCConfigured
    Simple <- MCSimple
    Sent <- MCSent
    MaxAdded = 1
    MaxLogins = 1
CHECK_DEADLOCK FALSE
INVARIANTS
    NamedByPath
    ErrorsOnce
    AllOrNothing
    KeepsBest
    OverflowIsHonest
    SlowestAreKept
    StaysNearTarget
    TraceIsWhole
    TotalsAreTrue
    AnsweredIsReported
    WrappedOnce
PROPERTIES
    TransactionEnds
    DiversityReturns
    NamedAsRuled
