SPECIFICATION Spec
CONSTANTS
    d1 = d1
    d2 = d2
    s1 = s1
    s2 = s2
    Sender = {d1, d2}
    Stopper = {s1}
    Answers = {0, 202, 409, 410, 503}
    MaxRuns = 3
    HealthReporting = TRUE
    HighSecurity = TRUE
    ImmediateHarvest = TRUE
CHECK_DEADLOCK FALSE
INVARIANTS
    PayloadNamesItsRun
    RunsAgree
PROPERTIES
    RunsAreClosed
    CallbacksCome
