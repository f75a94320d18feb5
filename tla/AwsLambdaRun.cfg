SPECIFICATION Spec
CONSTANTS
    MaxInvocations = 2
    MaxCalls = 2
CHECK_DEADLOCK FALSE
INVARIANT
    EndersRunOnce
