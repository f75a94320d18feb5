SPECIFICATION MCSpec
CONSTANTS
    a = a
    b = b
    c = c
    home = home
    away = away
    Outside = Outside
    None = None
    Tx <- MCTx
    Account <- MCAccount
    AccountOf <- MCAccountOf
    ExcludeLegacy = {b}
    Clients = {home}
    Careless = {a}
    Starting = {c}
    Decision <- MCDecision
    MaxTransactions = 2
    MaxSpans = 3
    MaxSegments = 2
    MaxContexts = 3
    MaxDepth = 2
CHECK_DEADLOCK FALSE
INVARIANTS
    OneDecision
    SaysTheSame
    StatePassesOn
    SpansAreMirrored
