SPECIFICATION Spec
CONSTANTS
    app = app
    gone = gone
    Caller <- MCCaller
    Options <- MCOptions
    HealthReporting = TRUE
    MaxTransactions = 2
    MaxLogins = 2
CHECK_DEADLOCK FALSE
INVARIANTS
    WaitsAsAsked
    OnceWithoutListeners
    NotLeftRunning
PROPERTIES
    CallbackComes
