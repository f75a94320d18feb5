SPECIFICATION Spec
CONSTANTS
    File <- MCFile
    Environment <- MCEnvironment
    Watched = {"record_sql", "include_enabled", "custom_events"}
    Key = {"slow_sql", "ai_monitoring", "capture_events", "allow_all_headers"}
CHECK_DEADLOCK FALSE
INVARIANT
    FilterFollows
