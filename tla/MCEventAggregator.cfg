SPECIFICATION MCSpec
CONSTANTS
    e1 = e1
    e2 = e2
    e3 = e3
    tx = tx
    other = other
    startup = startup
    shutdown = shutdown
    NoLimit = NoLimit
    Event = {e1, e2, e3}
    Priority <- MCPriority
    Method = {tx}
    MethodOf <- MCMethodOf
    Splitting = {tx}
    StopsDisabled = {tx}
    EmptiesAtZero = {}
    SplitThreshold = 2
    DefaultLimit <- MCDefault
    Limits = {0, 1, 3}
    Answers = {0, 1, 202, 409, 503}
    Caller = {startup}
    MaxRetained = 1
INVARIANTS
    Conserved
    MetricsAgree
    AloneHarvestWaits
PROPERTIES
    DeliverySpec
    HarvestsReturn
